---- MODULE Spec2Model ----
(***************************************************************************)
(* A model of the sidemantic-rs core: the semantic graph (core/graph.rs),  *)
(* the dependency analyzer (core/dependency.rs) and the query rewriter     *)
(* (sql/rewriter.rs).                                                      *)
(*                                                                         *)
(* Conventions.  An Option<T> is a sequence of length 0 (None) or 1        *)
(* (Some(x) = <<x>>).  A dotted string such as "public.orders" or          *)
(* "orders.revenue" is the sequence of its '.'-separated parts, so that    *)
(* split('.'), contains('.') and format!("{}.{}", a, b) are computed.      *)
(* HashMap / HashSet iteration orders are unspecified in Rust: every place *)
(* where the code iterates one takes the order as a nondeterministic input.*)
(***************************************************************************)
EXTENDS Integers, Sequences, FiniteSets, TLC

VARIABLES
    models,      \* SemanticGraph.models : name -> Model            (graph.rs:33)
    adjacency,   \* SemanticGraph.adjacency : name -> Seq of edges  (graph.rs:35)
    call,        \* the last operation invoked, with its arguments
    ret,         \* what that operation returned
    active_model, \* static ACTIVE_MODEL : Option<String>            (ffi.rs:27)
    lock,        \* the thread inside each of the two static mutexes (ffi.rs:24,27)
    thread       \* each calling thread's FFI call in flight

vars == <<models, adjacency, call, ret, active_model, lock, thread>>

\* the process-wide state of the FFI layer
process == <<active_model, lock, thread>>

None == <<>>
Some(x) == <<x>>
IsSome(o) == Len(o) > 0
Unwrap(o) == o[1]
UnwrapOr(o, d) == IF Len(o) > 0 THEN o[1] ELSE d

\* the core used as a library: no FFI call is ever made
NoProcess ==
    /\ active_model = None
    /\ lock = [SEMANTIC_GRAPH |-> None, ACTIVE_MODEL |-> None]
    /\ thread = <<>>

Range(s) == {s[i] : i \in DOMAIN s}

\* All sequences over S of length 0..n
RECURSIVE SeqsUpTo(_, _)
SeqsUpTo(S, n) ==
    IF n = 0 THEN {<<>>}
    ELSE LET shorter == SeqsUpTo(S, n - 1)
         IN  shorter \cup {Append(s, x) : s \in {t \in shorter : Len(t) = n - 1}, x \in S}

\* All orderings (sequences without repetition) of a finite set
RECURSIVE Orderings(_)
Orderings(S) ==
    IF S = {} THEN {<<>>}
    ELSE UNION {{<<x>> \o s : s \in Orderings(S \ {x})} : x \in S}

(***************************************************************************)
(* core/model.rs                                                           *)
(***************************************************************************)

\* Relationship::fk : foreign_key, else "{name}_id"
fk(rel) == IF IsSome(rel.foreign_key) THEN Unwrap(rel.foreign_key) ELSE rel.name \o "_id"

\* Relationship::pk : primary_key, else "id"
pk(rel) == UnwrapOr(rel.primary_key, "id")

Relationship(target, type, foreign_key, primary_key) ==
    [name |-> target, type |-> type, foreign_key |-> foreign_key, primary_key |-> primary_key]

Model(name, table, sql, dimensions, metrics, relationships) ==
    [name |-> name, table |-> table, sql |-> sql, dimensions |-> dimensions,
     metrics |-> metrics, relationships |-> relationships]

\* Metric SQL text is a sequence of tokens; an identifier token carries its
\* '.'-separated parts, every other token its text as a single part.  A
\* whitespace token is whitespace written in the text; two neighbouring tokens
\* that are not whitespace are one space apart.
Id(parts) == [t |-> "id", v |-> parts]
Op(text) == [t |-> "op", v |-> <<text>>]
Num(text) == [t |-> "num", v |-> <<text>>]
Ws(text) == [t |-> "ws", v |-> <<text>>]

Metric(name, type, agg, sql, numerator, denominator, base_metric) ==
    [name |-> name, type |-> type, agg |-> agg, sql |-> sql, numerator |-> numerator,
     denominator |-> denominator, base_metric |-> base_metric]

\* Metric::sum, Metric::count, Metric::derived, Metric::ratio
MetricSimple(name, agg, sql) == Metric(name, "simple", Some(agg), sql, None, None, None)
MetricDerived(name, sql) == Metric(name, "derived", None, Some(sql), None, None, None)
MetricRatio(name, num, den) == Metric(name, "ratio", None, None, Some(num), Some(den), None)

\* Model::get_metric / Model::get_dimension : the first entry with that name
FindByName(list, name) ==
    LET hits == {i \in DOMAIN list : list[i].name = name}
    IN  IF hits = {} THEN None ELSE Some(list[CHOOSE i \in hits : \A j \in hits : i <= j])

get_metric(model, name) == FindByName(model.metrics, name)
get_dimension(model, name) == FindByName(model.dimensions, name)

(***************************************************************************)
(* core/graph.rs                                                           *)
(***************************************************************************)

Edge(target, from_key, to_key, type) ==
    [target |-> target, fk |-> from_key, pk |-> to_key, type |-> type]

\* the match of rebuild_adjacency that inverts a relationship type
SameType(t) == t
reverse_type(t) ==
    CASE t = "many_to_one" -> "one_to_many"
      [] t = "one_to_many" -> "many_to_one"
      [] t = "one_to_one" -> "one_to_one"
      [] t = "many_to_many" -> "many_to_many"

\* adjacency.entry(name).or_default()
EntryOrDefault(adj, name) ==
    IF name \in DOMAIN adj THEN adj ELSE [n \in DOMAIN adj \cup {name} |-> IF n \in DOMAIN adj THEN adj[n] ELSE <<>>]

\* adjacency.entry(name).or_default().push(e)
PushEdge(adj, name, e) ==
    LET a == EntryOrDefault(adj, name) IN [a EXCEPT ![name] = Append(@, e)]

\* first inner loop of rebuild_adjacency: the forward edges of one model
RECURSIVE ForwardEdges(_, _, _, _)
ForwardEdges(adj, model, rels, i) ==
    IF i > Len(rels) THEN adj
    ELSE ForwardEdges(PushEdge(adj, model.name,
                               Edge(rels[i].name, fk(rels[i]), pk(rels[i]), rels[i].type)),
                      model, rels, i + 1)

\* second inner loop of rebuild_adjacency: the reverse edges of one model
NoReverseEdges(adj, model, rels, i) == adj
RECURSIVE ReverseEdges(_, _, _, _)
ReverseEdges(adj, model, rels, i) ==
    IF i > Len(rels) THEN adj
    ELSE ReverseEdges(PushEdge(adj, rels[i].name,
                               Edge(model.name, pk(rels[i]), fk(rels[i]), reverse_type(rels[i].type))),
                      model, rels, i + 1)

\* rebuild_adjacency: clear, then visit the models in the map's iteration order
RECURSIVE rebuild_adjacency(_, _, _, _)
rebuild_adjacency(adj, ms, order, i) ==
    IF i > Len(order) THEN adj
    ELSE LET model == ms[order[i]]
             a1 == EntryOrDefault(adj, model.name)
             a2 == ForwardEdges(a1, model, model.relationships, 1)
             a3 == ReverseEdges(a2, model, model.relationships, 1)
         IN  rebuild_adjacency(a3, ms, order, i + 1)

EmptyMap == [n \in {} |-> <<>>]

\* models.insert(name, model)
MapInsertKeepOld(ms, name, model) ==
    [n \in DOMAIN ms \cup {name} |-> IF n \in DOMAIN ms THEN ms[n] ELSE model]
MapInsert(ms, name, model) ==
    [n \in DOMAIN ms \cup {name} |-> IF n = name THEN model ELSE ms[n]]

\* SemanticGraph::get_model
get_model(ms, name) == IF name \in DOMAIN ms THEN Some(ms[name]) ELSE None

JoinStep(from_model, to_model, from_key, to_key, type) ==
    [from_model |-> from_model, to_model |-> to_model, from_key |-> from_key,
     to_key |-> to_key, relationship_type |-> type]

Ok(v) == [ok |-> TRUE, val |-> v, err |-> "", arg |-> <<>>]
Err(kind, arg) == [ok |-> FALSE, val |-> <<>>, err |-> kind, arg |-> arg]

\* the push of an expanded path onto the BFS queue (graph.rs:146)
QueueParentPath(queue, target, path, new_path) == Append(queue, <<target, path>>)
QueuePush(queue, target, path, new_path) == Append(queue, <<target, new_path>>)

\* the for-loop over the edges of `current` (graph.rs:130-148);
\* st = [found, result, visited, queue]
RECURSIVE ExpandEdgesLastFirst(_, _, _, _, _, _)
ExpandEdgesLastFirst(edges, i, current, path, to, st) ==
    IF i > Len(edges) THEN st
    ELSE LET e == edges[Len(edges) + 1 - i] IN
         IF e.target \notin st.visited
         THEN LET new_path == Append(path, JoinStep(current, e.target, e.fk, e.pk, e.type)) IN
              IF e.target = to
              THEN [st EXCEPT !.found = TRUE, !.result = new_path]
              ELSE ExpandEdgesLastFirst(edges, i + 1, current, path, to,
                               [st EXCEPT !.visited = @ \cup {e.target},
                                          !.queue = Append(@, <<e.target, new_path>>)])
         ELSE ExpandEdgesLastFirst(edges, i + 1, current, path, to, st)
RECURSIVE ExpandEdges(_, _, _, _, _, _)
ExpandEdges(edges, i, current, path, to, st) ==
    IF i > Len(edges) THEN st
    ELSE LET e == edges[i] IN
         IF e.target \notin st.visited
         THEN LET new_path == Append(path, JoinStep(current, e.target, e.fk, e.pk, e.type)) IN
              IF e.target = to
              THEN [st EXCEPT !.found = TRUE, !.result = new_path]
              ELSE ExpandEdges(edges, i + 1, current, path, to,
                               [st EXCEPT !.visited = @ \cup {e.target},
                                          !.queue = QueuePush(@, e.target, path, new_path)])
         ELSE ExpandEdges(edges, i + 1, current, path, to, st)

\* the while-loop of find_join_path (graph.rs:128-155)
BfsOneLevel(adj, from, to, st) ==
    LET st2 == IF from \in DOMAIN adj
               THEN ExpandEdges(adj[from], 1, from, <<>>, to, [st EXCEPT !.queue = Tail(@)])
               ELSE st
    IN  IF st2.found THEN Ok(st2.result) ELSE Err("NoJoinPath", <<from, to>>)
RECURSIVE BfsLoop(_, _, _, _)
BfsLoop(adj, from, to, st) ==
    IF st.queue = <<>> THEN Err("NoJoinPath", <<from, to>>)
    ELSE LET current == Head(st.queue)[1]
             path == Head(st.queue)[2]
             popped == [st EXCEPT !.queue = Tail(@)]
             st2 == IF current \in DOMAIN adj
                    THEN ExpandEdges(adj[current], 1, current, path, to, popped)
                    ELSE popped
         IN  IF st2.found THEN Ok(st2.result) ELSE BfsLoop(adj, from, to, st2)

\* SemanticGraph::find_join_path
find_join_path_unchecked(ms, adj, from, to) ==
    IF from = to THEN Ok(<<>>)
    ELSE BfsLoop(adj, from, to,
                 [found |-> FALSE, result |-> <<>>, visited |-> {from},
                  queue |-> << <<from, <<>> >> >>])
find_join_path(ms, adj, from, to) ==
    IF from = to THEN Ok(<<>>)
    ELSE IF from \notin DOMAIN ms THEN Err("ModelNotFound", <<from>>)
    ELSE IF to \notin DOMAIN ms THEN Err("ModelNotFound", <<to>>)
    ELSE BfsLoop(adj, from, to,
                 [found |-> FALSE, result |-> <<>>, visited |-> {from},
                  queue |-> << <<from, <<>> >> >>])

(***************************************************************************)
(* The graph under construction: add_model and find_join_path calls.       *)
(***************************************************************************)

MaxRels == 1

GraphNames == {"orders", "customers", "items"}

\* the relationship targets a model of the catalogue may declare; "ghost" is
\* a name that is never added as a model
TargetsOf(name) ==
    CASE name = "orders" -> {"customers", "items"}
      [] name = "customers" -> {"items", "ghost"}
      [] name = "items" -> {"orders", "items"}

\* the relationship declared towards a target: kinds and key defaults vary
RelTo(target) ==
    CASE target = "customers" -> Relationship(target, "many_to_one", None, None)
      [] target = "items" -> Relationship(target, "one_to_many", Some("sku"), Some("item_sku"))
      [] target = "orders" -> Relationship(target, "one_to_one", None, None)
      [] target = "ghost" -> Relationship(target, "many_to_many", Some("ghost_ref"), None)

ModelWithRels(n, table, ts) ==
    Model(n, table, None, <<>>, <<>>, [i \in DOMAIN ts |-> RelTo(ts[i])])

\* the sequences of at most n distinct relationship targets
DistinctTargets(S, n) ==
    {ts \in SeqsUpTo(S, n) : \A i, j \in DOMAIN ts : ts[i] = ts[j] => i = j}

\* every model the add_model calls may pass: valid models with a table and up to
\* MaxRels relationships, and one model per name with neither table nor sql
GraphCatalog ==
    UNION {{ModelWithRels(n, Some(<<n>>), ts) : ts \in DistinctTargets(TargetsOf(n), MaxRels)}
           \cup {ModelWithRels(n, None, <<>>)} : n \in GraphNames}

\* the iteration orders of the models map that differ in the adjacency lists
\* they build: the models without relationships add no edge
ModelOrders(ms) ==
    LET with == {n \in DOMAIN ms : ms[n].relationships # <<>>}
        without == CHOOSE s \in Orderings(DOMAIN ms \ with) : TRUE
    IN  {s \o without : s \in Orderings(with)}

InitGraph ==
    /\ models = EmptyMap
    /\ adjacency = EmptyMap
    /\ call = [op |-> "new"]
    /\ ret = Ok(<<>>)
    /\ NoProcess

\* the validation of add_model (graph.rs:48)
NeverInvalid(model) == FALSE
IsInvalid(model) == ~IsSome(model.table) /\ ~IsSome(model.sql)

\* SemanticGraph::add_model; `replaced` is what models.insert returns, the
\* model stored under the name before, and is dropped by the code
AddModel(model) ==
    /\ call' = [op |-> "add_model", model |-> model,
                replaced |-> IF IsInvalid(model) THEN None ELSE get_model(models, model.name)]
    /\ IF IsInvalid(model)
       THEN /\ ret' = Err("Validation", <<model.name>>)
            /\ UNCHANGED <<models, adjacency>>
       ELSE /\ models' = MapInsert(models, model.name, model)
            /\ \E order \in ModelOrders(models') :
                  adjacency' = rebuild_adjacency(EmptyMap, models', order, 1)
            /\ ret' = Ok(<<>>)

FindJoinPath(from, to) ==
    /\ call' = [op |-> "find_join_path", from |-> from, to |-> to]
    /\ ret' = find_join_path(models, adjacency, from, to)
    /\ UNCHANGED <<models, adjacency>>

GetModel(name) ==
    /\ call' = [op |-> "get_model", name |-> name]
    /\ ret' = Ok(get_model(models, name))
    /\ UNCHANGED <<models, adjacency>>

NextGraph ==
    /\ UNCHANGED process
    /\ \/ \E m \in GraphCatalog : AddModel(m)
       \/ \E name \in GraphNames \cup {"ghost"} : GetModel(name)
       \/ \E from \in GraphNames \cup {"ghost"}, to \in GraphNames \cup {"ghost"} : FindJoinPath(from, to)

SpecGraph == InitGraph /\ [][NextGraph]_vars

(***************************************************************************)
(* Path lengths in the adjacency index, computed by layers and not by the  *)
(* queue of find_join_path.                                                *)
(***************************************************************************)

Neighbors(adj, n) == IF n \in DOMAIN adj THEN {adj[n][i].target : i \in DOMAIN adj[n]} ELSE {}

AdjNodes(adj) == DOMAIN adj \cup UNION {Neighbors(adj, n) : n \in DOMAIN adj}

\* the names reachable from `from` over at most k edges
RECURSIVE ReachWithin(_, _, _)
ReachWithin(adj, from, k) ==
    IF k = 0 THEN {from}
    ELSE LET r == ReachWithin(adj, from, k - 1)
         IN  r \cup UNION {Neighbors(adj, n) : n \in r}

Reachable(adj, from, to) == to \in ReachWithin(adj, from, Cardinality(AdjNodes(adj)))

\* the least number of edges of a path from `from` to `to` (to reachable)
MinEdges(adj, from, to) ==
    CHOOSE k \in 0..Cardinality(AdjNodes(adj)) :
        /\ to \in ReachWithin(adj, from, k)
        /\ \A j \in 0..(k - 1) : to \notin ReachWithin(adj, from, j)

\* C2: whenever find_join_path(a, b) with a # b succeeds, the number of steps
\* it returns is the least number of edges of any path from a to b in the
\* adjacency index (forward and reverse relationship edges).
C2_ShortestPath ==
    (call.op = "find_join_path" /\ call.from # call.to /\ ret.ok)
        => Len(ret.val) = MinEdges(adjacency, call.from, call.to)

\* a two-step path was returned in a graph of three models
C2_Witness ==
    /\ call.op = "find_join_path"
    /\ ret.ok
    /\ Len(ret.val) = 2
    /\ Cardinality(DOMAIN models) = 3

(***************************************************************************)
(* Properties of find_join_path.                                           *)
(***************************************************************************)

FindReturned == call.op = "find_join_path"

\* C14 as stated: whenever from or to is not the name of a model,
\* find_join_path(from, to) returns ModelNotFound naming an unknown endpoint.
C14_UnknownEndpoint ==
    (FindReturned /\ (call.from \notin DOMAIN models \/ call.to \notin DOMAIN models))
        => (/\ ~ret.ok
            /\ ret.err = "ModelNotFound"
            /\ ret.arg \in {<<n>> : n \in {call.from, call.to} \ DOMAIN models})

\* C14: for distinct names from, to of which one is not the name of a model,
\* find_join_path returns ModelNotFound naming from when from is unknown and to
\* otherwise; for from = to it returns the empty path, model or not.
C14_UnknownDistinctEndpoint ==
    FindReturned =>
        /\ (call.from # call.to
                /\ (call.from \notin DOMAIN models \/ call.to \notin DOMAIN models))
             => (/\ ~ret.ok
                 /\ ret.err = "ModelNotFound"
                 /\ ret.arg = IF call.from \notin DOMAIN models THEN <<call.from>>
                              ELSE <<call.to>>)
        /\ call.from = call.to => ret = Ok(<<>>)

\* the target is no model although the adjacency index has edges at its name
C14_Witness ==
    /\ FindReturned
    /\ call.from \in DOMAIN models
    /\ call.to \notin DOMAIN models
    /\ call.to \in DOMAIN adjacency
    /\ Reachable(adjacency, call.from, call.to)
    /\ ret.err = "ModelNotFound"
    /\ ret.arg = <<call.to>>

\* a sequence of steps that leads from `from` to `to` along edges of the index
IsPath(adj, from, to, steps) ==
    /\ steps # <<>>
    /\ steps[1].from_model = from
    /\ steps[Len(steps)].to_model = to
    /\ \A i \in DOMAIN steps :
          /\ steps[i].from_model \in DOMAIN adj
          /\ \E j \in DOMAIN adj[steps[i].from_model] :
                adj[steps[i].from_model][j]
                    = Edge(steps[i].to_model, steps[i].from_key, steps[i].to_key,
                           steps[i].relationship_type)
          /\ i < Len(steps) => steps[i].to_model = steps[i + 1].from_model

\* C15: for distinct models from, to of the graph, find_join_path returns
\* NoJoinPath exactly when to is not reachable from from over the adjacency
\* index and a path from from to to otherwise, on graphs with relationship
\* cycles and self-relationships too.
C15_NoJoinPathIffUnreachable ==
    (FindReturned /\ call.from # call.to /\ {call.from, call.to} \subseteq DOMAIN models)
        => /\ ret.ok <=> Reachable(adjacency, call.from, call.to)
           /\ ~ret.ok => ret.err = "NoJoinPath"
           /\ ret.ok => IsPath(adjacency, call.from, call.to, ret.val)

\* NoJoinPath in a graph of three models with a self-relationship
C15_Witness ==
    /\ FindReturned
    /\ ret.err = "NoJoinPath"
    /\ Cardinality(DOMAIN models) = 3
    /\ \E n \in DOMAIN models : n \in Neighbors(adjacency, n)
    /\ Neighbors(adjacency, call.from) # {}

\* C16: find_join_path(a, a) is the empty path, and for models a, b of the
\* graph find_join_path(a, b) succeeds exactly when find_join_path(b, a) does,
\* with the same number of steps.
C16_Symmetric ==
    FindReturned =>
        /\ call.from = call.to => ret = Ok(<<>>)
        /\ {call.from, call.to} \subseteq DOMAIN models
             => LET back == find_join_path(models, adjacency, call.to, call.from)
                IN  /\ ret.ok <=> back.ok
                    /\ ret.ok => Len(ret.val) = Len(back.val)

\* a two-step path whose way back has two steps as well
C16_Witness ==
    /\ FindReturned
    /\ ret.ok
    /\ Len(ret.val) = 2
    /\ Len(find_join_path(models, adjacency, call.to, call.from).val) = 2

\* the walks of k edges from n, each as the positions of its edges in the
\* adjacency lists
RECURSIVE Walks(_, _, _)
Walks(adj, n, k) ==
    IF k = 0 THEN {<<>>}
    ELSE IF n \notin DOMAIN adj THEN {}
    ELSE UNION {{<<i>> \o w : w \in Walks(adj, adj[n][i].target, k - 1)} :
                i \in DOMAIN adj[n]}

RECURSIVE WalkSteps(_, _, _)
WalkSteps(adj, n, w) ==
    IF w = <<>> THEN <<>>
    ELSE LET e == adj[n][Head(w)]
         IN  <<JoinStep(n, e.target, e.fk, e.pk, e.type)>> \o WalkSteps(adj, e.target, Tail(w))

WalkEnd(adj, n, w) == IF w = <<>> THEN n ELSE WalkSteps(adj, n, w)[Len(w)].to_model

\* a before b, position by position
Earlier(a, b) ==
    \E j \in DOMAIN a : a[j] < b[j] /\ \A i \in 1..(j - 1) : a[i] = b[i]

\* of the shortest walks from `from` to `to`, the one that takes the earliest
\* edge of each adjacency list
FirstShortest(adj, from, to) ==
    LET cands == {w \in Walks(adj, from, MinEdges(adj, from, to)) : WalkEnd(adj, from, w) = to}
        best == CHOOSE w \in cands : \A v \in cands : v = w \/ Earlier(w, v)
    IN  WalkSteps(adj, from, best)

\* C17: the path find_join_path returns is a function of the graph and of
\* (from, to), so that calls repeated on an unchanged graph return the same
\* steps: of the shortest paths it is the one found first when the edges of
\* each visited model are expanded in the insertion order of its adjacency list.
C17_FirstInInsertionOrder ==
    (FindReturned /\ ret.ok /\ call.from # call.to)
        => ret.val = FirstShortest(adjacency, call.from, call.to)

\* two edges lead from the source to the target, and the step returned is the
\* one inserted first
C17_Witness ==
    /\ FindReturned
    /\ ret.ok
    /\ call.from # call.to
    /\ \E i, j \in DOMAIN adjacency[call.from] :
          /\ i < j
          /\ adjacency[call.from][i].target = call.to
          /\ adjacency[call.from][j].target = call.to
          /\ adjacency[call.from][i] # adjacency[call.from][j]
          /\ ret.val = <<JoinStep(call.from, call.to, adjacency[call.from][i].fk,
                                  adjacency[call.from][i].pk, adjacency[call.from][i].type)>>

\* C27: on every graph built by add_model calls, also one where a
\* relationship names a target that was never added, every step of a path
\* returned by find_join_path goes from a stored model to a stored model, the
\* steps chain from `from` to `to`, and no model is entered twice.
C27_PathOverStoredModels ==
    (FindReturned /\ ret.ok) =>
        LET steps == ret.val IN
        /\ \A i \in DOMAIN steps :
              /\ steps[i].from_model \in DOMAIN models
              /\ steps[i].to_model \in DOMAIN models
              /\ steps[i].from_model = IF i = 1 THEN call.from ELSE steps[i - 1].to_model
        /\ steps # <<>> => steps[Len(steps)].to_model = call.to
        /\ \A i, j \in DOMAIN steps : steps[i].to_model = steps[j].to_model => i = j
        /\ \A i \in DOMAIN steps : steps[i].to_model # call.from

(***************************************************************************)
(* Properties of add_model and get_model.                                  *)
(***************************************************************************)

AllNames == GraphNames \cup {"ghost"}

\* C11: add_model of a model with neither table nor sql returns a Validation
\* error and leaves the models map and the adjacency index as they were, also
\* when a model of that name is already in the graph.
C11_InvalidAddLeavesGraph ==
    [][(call'.op = "add_model" /\ ~IsSome(call'.model.table) /\ ~IsSome(call'.model.sql))
          => (/\ ~ret'.ok
              /\ ret'.err = "Validation"
              /\ models' = models
              /\ adjacency' = adjacency)]_vars

\* an invalid model was refused while a model of its name, with a
\* relationship, is in the graph
C11_Witness ==
    /\ call.op = "add_model"
    /\ ret.err = "Validation"
    /\ call.model.name \in DOMAIN models
    /\ models[call.model.name].relationships # <<>>
    /\ adjacency # EmptyMap

Stored(ms, n) == IF n \in DOMAIN ms THEN Some(ms[n]) ELSE None

\* C12: the graph starts with no model; a successful add_model stores its
\* model under its name, overwriting an earlier one, and changes the model
\* under no other name; no other call changes a stored model; get_model(n)
\* returns the model stored under n, none when there is none.  So get_model(n)
\* is the model of the latest successful add_model of name n.
C12_GetModelIsLatestAdd ==
    /\ models = EmptyMap
    /\ [][/\ (call'.op = "add_model" /\ ret'.ok)
                => /\ Stored(models', call'.model.name) = Some(call'.model)
                   /\ \A n \in AllNames \ {call'.model.name} :
                         Stored(models', n) = Stored(models, n)
          /\ ~(call'.op = "add_model" /\ ret'.ok) => models' = models
          /\ call'.op = "get_model" => ret' = Ok(Stored(models, call'.name))]_vars

\* a re-add replaced a different model of the same name in a graph of
\* several models
C12_Witness ==
    /\ call.op = "add_model"
    /\ ret.ok
    /\ IsSome(call.replaced)
    /\ Unwrap(call.replaced) # call.model
    /\ models[call.model.name] = call.model
    /\ Cardinality(DOMAIN models) >= 2

InvertedKind(t) ==
    IF t = "many_to_one" THEN "one_to_many"
    ELSE IF t = "one_to_many" THEN "many_to_one"
    ELSE t

\* one slot per relationship of a stored model
RelSlots == UNION {{<<m, i>> : i \in DOMAIN models[m].relationships} : m \in DOMAIN models}

ForwardOf(slot) ==
    LET r == models[slot[1]].relationships[slot[2]]
    IN  <<slot[1], Edge(r.name, fk(r), pk(r), r.type)>>

ReverseOf(slot) ==
    LET r == models[slot[1]].relationships[slot[2]]
    IN  <<r.name, Edge(slot[1], pk(r), fk(r), InvertedKind(r.type))>>

\* how many times the relationships of the stored models give the edge p
ExpectedCount(p) ==
    Cardinality({sl \in RelSlots : ForwardOf(sl) = p})
        + Cardinality({sl \in RelSlots : ReverseOf(sl) = p})

\* how many times the adjacency index holds the edge p
ActualCount(p) ==
    IF p[1] \in DOMAIN adjacency
    THEN Cardinality({i \in DOMAIN adjacency[p[1]] : adjacency[p[1]][i] = p[2]})
    ELSE 0

\* C13: the adjacency index holds exactly, for each relationship r of each
\* stored model M, the forward edge M -> r.name with keys (fk, pk) and r's
\* kind and the reverse edge r.name -> M with keys (pk, fk) and the kind
\* inverted; it holds no edge of a model version that was overwritten.
C13_AdjacencyIsDerived ==
    \A p \in {ForwardOf(sl) : sl \in RelSlots} \cup {ReverseOf(sl) : sl \in RelSlots}
             \cup UNION {{<<n, adjacency[n][i]>> : i \in DOMAIN adjacency[n]} :
                         n \in DOMAIN adjacency} :
        ActualCount(p) = ExpectedCount(p)

\* a re-add changed the relationships of a model in a graph of three models
C13_Witness ==
    /\ call.op = "add_model"
    /\ ret.ok
    /\ IsSome(call.replaced)
    /\ Unwrap(call.replaced).relationships # <<>>
    /\ Unwrap(call.replaced).relationships # call.model.relationships
    /\ Cardinality(DOMAIN models) = 3

(***************************************************************************)
(* SemanticGraph::parse_reference on references given character by         *)
(* character.                                                              *)
(***************************************************************************)

\* the String of a sequence of characters
RECURSIVE Str(_)
Str(chars) == IF chars = <<>> THEN "" ELSE Head(chars) \o Str(Tail(chars))

\* reference.split('.') : acc holds the finished parts, cur the open one
RECURSIVE SplitDots(_, _, _, _)
SplitDots(chars, i, cur, acc) ==
    IF i > Len(chars) THEN Append(acc, cur)
    ELSE IF chars[i] = "." THEN SplitDots(chars, i + 1, <<>>, Append(acc, cur))
    ELSE SplitDots(chars, i + 1, Append(cur, chars[i]), acc)

\* the byte offsets at which "__" occurs
DoubleUnderscores(chars) ==
    {pos \in 0..(Len(chars) - 2) : chars[pos + 1] = "_" /\ chars[pos + 2] = "_"}

\* field_with_granularity.find("__")
FindLast(chars) ==
    LET hits == DoubleUnderscores(chars)
    IN  IF hits = {} THEN None ELSE Some(CHOOSE pos \in hits : \A q \in hits : q <= pos)
Find(chars) ==
    LET hits == DoubleUnderscores(chars)
    IN  IF hits = {} THEN None ELSE Some(CHOOSE pos \in hits : \A q \in hits : pos <= q)

\* parts.len() != 2
FewerThanTwo(parts) == Len(parts) < 2
IsInvalidReference(parts) == Len(parts) # 2

\* SemanticGraph::parse_reference
parse_reference(ms, reference) ==
    LET parts == SplitDots(reference, 1, <<>>, <<>>) IN
    IF IsInvalidReference(parts) THEN Err("InvalidReference", <<Str(reference)>>)
    ELSE LET model_name == parts[1]
             field_with_granularity == parts[2]
             found == Find(field_with_granularity)
             field_name == IF IsSome(found)
                           THEN SubSeq(field_with_granularity, 1, Unwrap(found))
                           ELSE field_with_granularity
             granularity == IF IsSome(found)
                            THEN Some(SubSeq(field_with_granularity, Unwrap(found) + 3,
                                             Len(field_with_granularity)))
                            ELSE None
         IN  IF Str(model_name) \notin DOMAIN ms
             THEN Err("ModelNotFound", <<Str(model_name)>>)
             ELSE Ok(<<model_name, field_name, granularity>>)

MaxRefLen == 7

RefChars == {"o", ".", "_"}

\* a graph built by add_model calls from a set of models with distinct names
GraphOf(S) == [n \in {x.name : x \in S} |-> CHOOSE x \in S : x.name = n]

RefModel(name) == Model(name, Some(<<name>>), None, <<>>, <<>>, <<>>)

\* no model, the model o, the models o and oo
RefGraphs == {GraphOf({}), GraphOf({RefModel("o")}), GraphOf({RefModel("o"), RefModel("oo")})}

\* the caller has a graph and a reference in hand and has not called yet
InitRef ==
    /\ \E g \in RefGraphs :
          /\ models = g
          /\ adjacency = rebuild_adjacency(EmptyMap, g, CHOOSE o \in Orderings(DOMAIN g) : TRUE, 1)
    /\ \E reference \in SeqsUpTo(RefChars, MaxRefLen) :
          call = [op |-> "parse_reference", reference |-> reference, returned |-> FALSE]
    /\ ret = Ok(<<>>)
    /\ NoProcess

ParseReference ==
    /\ call.op = "parse_reference"
    /\ ~call.returned
    /\ call' = [call EXCEPT !.returned = TRUE]
    /\ ret' = parse_reference(models, call.reference)
    /\ UNCHANGED <<models, adjacency>>

NextRef == ParseReference /\ UNCHANGED process

SpecRef == InitRef /\ [][NextRef]_vars

Dots(chars) == {i \in DOMAIN chars : chars[i] = "."}

\* the text before and after the only '.'
BeforeDot(chars) == SubSeq(chars, 1, (CHOOSE i \in Dots(chars) : TRUE) - 1)
AfterDot(chars) == SubSeq(chars, (CHOOSE i \in Dots(chars) : TRUE) + 1, Len(chars))

\* C18: parse_reference(s) returns InvalidReference whenever s does not hold
\* exactly one '.', also when its first part is no model; ModelNotFound when s
\* holds exactly one '.' and the text before it is not a model of the graph;
\* it succeeds in every other case; the graph is the same after the call.
C18_ReferenceErrors ==
    [][(call'.op = "parse_reference" /\ call'.returned)
          => /\ models' = models
             /\ adjacency' = adjacency
             /\ LET r == call'.reference IN
                IF Cardinality(Dots(r)) # 1
                THEN ~ret'.ok /\ ret'.err = "InvalidReference"
                ELSE IF Str(BeforeDot(r)) \notin DOMAIN models
                THEN ~ret'.ok /\ ret'.err = "ModelNotFound"
                         /\ ret'.arg = <<Str(BeforeDot(r))>>
                ELSE ret'.ok]_vars

\* a reference with two dots whose first part is no model of a graph that
\* has models: InvalidReference
C18_Witness ==
    /\ call.op = "parse_reference"
    /\ call.returned
    /\ Cardinality(Dots(call.reference)) = 2
    /\ Str(SplitDots(call.reference, 1, <<>>, <<>>)[1]) \notin DOMAIN models
    /\ models # EmptyMap
    /\ ret.err = "InvalidReference"

HasDoubleUnderscore(chars) ==
    \E i \in 1..(Len(chars) - 1) : chars[i] = "_" /\ chars[i + 1] = "_"

\* C19: when parse_reference(s) succeeds with (model, field, granularity),
\* model is the text before the '.'; the granularity is absent exactly when the
\* text after the '.' holds no '__', and the field is then that text; otherwise
\* the field is the text before the first '__' and the granularity all the
\* text after it, which may hold '__' itself; model + '.' + field
\* (+ '__' + granularity) is s again.
C19_ReferenceParts ==
    (call.op = "parse_reference" /\ call.returned /\ ret.ok) =>
        LET s == call.reference
            model == ret.val[1]
            field == ret.val[2]
            granularity == ret.val[3]
            segment == AfterDot(s)
        IN  /\ model = BeforeDot(s)
            /\ ~IsSome(granularity) <=> ~HasDoubleUnderscore(segment)
            /\ ~IsSome(granularity) => (field = segment /\ s = model \o <<".">> \o field)
            /\ IsSome(granularity) =>
                  /\ segment = field \o <<"_", "_">> \o Unwrap(granularity)
                  /\ ~HasDoubleUnderscore(Append(field, "_"))
                  /\ s = model \o <<".">> \o field \o <<"_", "_">> \o Unwrap(granularity)

\* a granularity that holds '__' itself
C19_Witness ==
    /\ call.op = "parse_reference"
    /\ call.returned
    /\ ret.ok
    /\ IsSome(ret.val[3])
    /\ HasDoubleUnderscore(Unwrap(ret.val[3]))
    /\ ret.val[2] # <<>>

(***************************************************************************)
(* core/dependency.rs                                                      *)
(***************************************************************************)

\* the space between token i and the token before it
Separator(sql, i) ==
    IF i = 1 \/ sql[i].t = "ws" \/ sql[i - 1].t = "ws" THEN "" ELSE " "

\* the text of a SQL fragment as its '.'-separated parts
RECURSIVE TextParts(_, _, _)
TextParts(sql, i, acc) ==
    IF i > Len(sql) THEN acc
    ELSE LET v == sql[i].v
             sep == Separator(sql, i)
             n == Len(acc)
             joined == [acc EXCEPT ![n] = @ \o sep \o v[1]] \o Tail(v)
         IN  TextParts(sql, i + 1, joined)

SqlString(sql) == TextParts(sql, 1, <<"">>)

\* has_operators: any of + - * / ( ) , > < = occurs in the text
has_operators(sql) == \E i \in DOMAIN sql : sql[i].t = "op"

\* str::trim : the text without its leading and trailing whitespace
RECURSIVE TrimStart(_)
TrimStart(sql) ==
    IF sql # <<>> /\ sql[1].t = "ws" THEN TrimStart(Tail(sql)) ELSE sql
RECURSIVE TrimEnd(_)
TrimEnd(sql) ==
    IF sql # <<>> /\ sql[Len(sql)].t = "ws" THEN TrimEnd(SubSeq(sql, 1, Len(sql) - 1)) ELSE sql
Trim(sql) == TrimEnd(TrimStart(sql))

\* contains('.')
ContainsDot(sql) == \E i \in DOMAIN sql : Len(sql[i].v) > 1

\* contains(' ')
ContainsSpace(sql) ==
    \E i \in DOMAIN sql : sql[i] = Ws(" ") \/ Separator(sql, i) = " "

\* is_simple_reference: the trimmed text contains '.', no ' ', no operator
is_simple_reference(sql) ==
    LET trimmed == Trim(sql)
    IN  /\ ContainsDot(trimmed)
        /\ ~ContainsSpace(trimmed)
        /\ ~has_operators(trimmed)

\* extract_column_references: the columns of the parsed fragment, a qualified
\* column as "table.name"
extract_column_references(sql) == {sql[i].v : i \in {j \in DOMAIN sql : sql[j].t = "id"}}

\* the loop of resolve_reference over graph.models(), in the map's iteration order
RECURSIVE ResolveIn(_, _, _, _)
ResolveIn(ref_name, ms, order, i) ==
    IF i > Len(order) THEN ref_name
    ELSE IF IsSome(get_metric(ms[order[i]], ref_name[1]))
         THEN <<ms[order[i]].name>> \o ref_name
         ELSE ResolveIn(ref_name, ms, order, i + 1)

\* resolve_reference
resolve_reference_verbatim(ref_name, ms, order) == ref_name
resolve_reference(ref_name, ms, order) ==
    IF Len(ref_name) > 1 THEN ref_name ELSE ResolveIn(ref_name, ms, order, 1)

OptSet(o) == IF IsSome(o) THEN {Unwrap(o)} ELSE {}

ResolveAll(refs, ms, order) == {resolve_reference(r, ms, order) : r \in refs}

\* extract_dependencies; graph is None or Some(models), order the iteration
\* order of the graph's models
extract_dependencies(metric, graph, order) ==
    CASE metric.type = "ratio" -> OptSet(metric.numerator) \cup OptSet(metric.denominator)
      [] metric.type = "derived" ->
            IF ~IsSome(metric.sql) THEN {}
            ELSE LET sql == Unwrap(metric.sql) IN
                 IF is_simple_reference(sql) THEN {SqlString(sql)}
                 ELSE IF IsSome(graph)
                      THEN ResolveAll(extract_column_references(sql), Unwrap(graph), order)
                      ELSE extract_column_references(sql)
      [] metric.type = "simple" -> {}
      [] metric.type = "cumulative" ->
            IF IsSome(metric.sql) THEN {SqlString(Unwrap(metric.sql))} ELSE {}
      [] metric.type = "time_comparison" -> OptSet(metric.base_metric)

\* the adjacency map of check_circular_dependencies (dependency.rs:207-212):
\* a later pair with the same name replaces an earlier one
RECURSIVE BuildDeps(_, _, _, _, _)
BuildDeps(metrics, i, ms, order, adj) ==
    IF i > Len(metrics) THEN adj
    ELSE BuildDeps(metrics, i + 1, ms, order,
                   MapInsert(adj, metrics[i][1],
                             extract_dependencies(metrics[i][2], Some(ms), order)))

\* a HashSet<String> in one of its iteration orders: `universe` lists every
\* string once, `rev` walks it backwards
RECURSIVE IterSet(_, _, _)
IterSet(S, universe, rev) ==
    IF universe = <<>> THEN <<>>
    ELSE LET x == IF rev THEN universe[Len(universe)] ELSE Head(universe)
             rest == IF rev THEN SubSeq(universe, 1, Len(universe) - 1) ELSE Tail(universe)
         IN  (IF x \in S THEN <<x>> ELSE <<>>) \o IterSet(S, rest, rev)

\* has_cycle (dependency.rs:218-241); st = [cycle, visited, rec_stack]
RECURSIVE has_cycle(_, _, _, _, _)
RECURSIVE VisitNeighbors(_, _, _, _, _, _)
has_cycle(node, adj, st, universe, rev) ==
    LET entered == [cycle |-> FALSE,
                    visited |-> st.visited \cup {node},
                    rec_stack |-> st.rec_stack \cup {node}]
        neighbors == IF node \in DOMAIN adj THEN IterSet(adj[node], universe, rev) ELSE <<>>
        after == VisitNeighbors(neighbors, 1, adj, entered, universe, rev)
    IN  IF after.cycle THEN after ELSE [after EXCEPT !.rec_stack = @ \ {node}]

VisitNeighbors(neighbors, i, adj, st, universe, rev) ==
    IF i > Len(neighbors) THEN st
    ELSE IF neighbors[i] \notin st.visited
         THEN LET r == has_cycle(neighbors[i], adj, st, universe, rev)
              IN  IF r.cycle THEN r ELSE VisitNeighbors(neighbors, i + 1, adj, r, universe, rev)
         ELSE IF neighbors[i] \in st.rec_stack
              THEN [st EXCEPT !.cycle = TRUE]
              ELSE VisitNeighbors(neighbors, i + 1, adj, st, universe, rev)

\* the final loop of check_circular_dependencies (dependency.rs:243-251)
RECURSIVE CheckRoots(_, _, _, _, _, _)
CheckRoots(metrics, i, adj, st, universe, rev) ==
    IF i > Len(metrics) THEN Ok(<<>>)
    ELSE LET name == metrics[i][1] IN
         IF name \notin st.visited
         THEN LET r == has_cycle(name, adj, st, universe, rev)
              IN  IF r.cycle THEN Err("Circular", name)
                  ELSE CheckRoots(metrics, i + 1, adj, r, universe, rev)
         ELSE CheckRoots(metrics, i + 1, adj, st, universe, rev)

\* check_circular_dependencies
check_circular_dependencies(metrics, ms, order, universe, rev) ==
    CheckRoots(metrics, 1, BuildDeps(metrics, 1, ms, order, EmptyMap),
               [cycle |-> FALSE, visited |-> {}, rec_stack |-> {}], universe, rev)

(***************************************************************************)
(* The dependency analyzer applied to bounded metric lists, on graphs      *)
(* whose models do or do not define metrics with the supplied names.       *)
(***************************************************************************)

MaxMetrics == 2

MetricNames == {"a", "b", "c"}

DepModel(name, metrics) == Model(name, Some(<<name>>), None, <<>>, metrics, <<>>)

\* the models a graph of this part may hold: m defines a and b in terms of
\* each other, n defines a and c as plain sums
DepCatalog ==
    {DepModel("m", <<MetricDerived("a", <<Id(<<"b">>), Op("*"), Num("2")>>),
                     MetricDerived("b", <<Id(<<"a">>), Op("*"), Num("2")>>)>>),
     DepModel("n", <<MetricSimple("a", "sum", Some(<<Id(<<"amount">>)>>)),
                     MetricSimple("c", "sum", Some(<<Id(<<"amount">>)>>))>>)}

\* the definitions a supplied metric may have
DepDefs(name) ==
    {MetricSimple(name, "sum", Some(<<Id(<<"amount">>)>>))}
    \cup {MetricRatio(name, <<p[1]>>, <<p[2]>>) : p \in {<<"a", "b">>, <<"b", "c">>, <<"c", "zz">>}}
    \cup {MetricDerived(name, <<Id(<<x>>), Op("*"), Num("2")>>) : x \in MetricNames}
    \cup {MetricDerived(name, <<Id(<<"m", x>>)>>) : x \in {"a", "b"}}

DepPairs == UNION {{<< <<n>>, d >> : d \in DepDefs(n)} : n \in MetricNames}

\* every string the dependency sets of this part can hold, listed once
BareSeq == <<"a", "b", "c", "zz", "amount">>
DepUniverse ==
    [i \in 1..Len(BareSeq) |-> <<BareSeq[i]>>]
    \o [i \in 1..Len(BareSeq) |-> <<"m", BareSeq[i]>>]
    \o [i \in 1..Len(BareSeq) |-> <<"n", BareSeq[i]>>]

\* the caller has a graph and a metric list in hand and has not called yet
InitDeps ==
    /\ \E S \in SUBSET DepCatalog :
          /\ models = GraphOf(S)
          /\ \E order \in Orderings(DOMAIN GraphOf(S)) :
                adjacency = rebuild_adjacency(EmptyMap, GraphOf(S), order, 1)
    /\ \E metrics \in SeqsUpTo(DepPairs, MaxMetrics) :
          call = [op |-> "check_circular_dependencies", metrics |-> metrics, returned |-> FALSE]
    /\ ret = Ok(<<>>)
    /\ NoProcess

CheckCircular ==
    /\ call.op = "check_circular_dependencies"
    /\ ~call.returned
    /\ call' = [call EXCEPT !.returned = TRUE]
    /\ \E order \in Orderings(DOMAIN models), rev \in BOOLEAN :
          ret' = check_circular_dependencies(call.metrics, models, order, DepUniverse, rev)
    /\ UNCHANGED <<models, adjacency>>

NextDeps == CheckCircular /\ UNCHANGED process

SpecDeps == InitDeps /\ [][NextDeps]_vars

\* The dependency graph over the supplied names: a -> b when the definition
\* of a (the last pair named a) depends on b, by the text of the definition.
SuppliedNames(metrics) == {metrics[i][1] : i \in DOMAIN metrics}

DefinitionOf(metrics, name) ==
    metrics[CHOOSE i \in DOMAIN metrics :
                /\ metrics[i][1] = name
                /\ \A j \in DOMAIN metrics : metrics[j][1] = name => j <= i][2]

DependsOn(metrics, a) ==
    extract_dependencies(DefinitionOf(metrics, a), None, <<>>) \cap SuppliedNames(metrics)

\* the names reachable from `a` over at least one and at most k edges
RECURSIVE DepReach(_, _, _)
DepReach(metrics, a, k) ==
    IF k <= 1 THEN DependsOn(metrics, a)
    ELSE LET r == DepReach(metrics, a, k - 1)
         IN  r \cup UNION {DependsOn(metrics, b) : b \in r}

HasDirectedCycle(metrics) ==
    \E a \in SuppliedNames(metrics) : a \in DepReach(metrics, a, Len(metrics))

\* C1: check_circular_dependencies returns Ok exactly when the dependency
\* graph over the supplied metric names has no directed cycle, and Err exactly
\* when it has one, whether or not the graph's models define metrics with
\* those names.
C1_OkIffAcyclic ==
    (call.op = "check_circular_dependencies" /\ call.returned)
        => (ret.ok <=> ~HasDirectedCycle(call.metrics))

\* C23: whenever check_circular_dependencies fails, the metric its error
\* names lies on a directed dependency cycle: it depends on itself over one or
\* more supplied metrics, in whatever order the metrics are supplied.
C23_NamedMetricOnCycle ==
    (call.op = "check_circular_dependencies" /\ call.returned /\ ~ret.ok)
        => ret.arg \in DepReach(call.metrics, ret.arg, Len(call.metrics))

(***************************************************************************)
(* extract_dependencies without a graph, on one metric.                    *)
(***************************************************************************)

MaxSqlLen == 3

ExtractTokens ==
    {Id(<<"revenue">>), Id(<<"order_count">>), Id(<<"orders", "revenue">>), Num("2"),
     Op("/"), Op("+"), Ws(" "), Ws("\n")}

WithoutWs(sql) == SelectSeq(sql, LAMBDA tok : tok.t # "ws")

\* operands joined by operators, with whitespace anywhere around them
IsExpression(sql) ==
    LET e == WithoutWs(sql)
    IN  /\ Len(e) % 2 = 1
        /\ \A i \in DOMAIN e : IF i % 2 = 1 THEN e[i].t \in {"id", "num"} ELSE e[i].t = "op"

ExtractSqlPool == {sql \in SeqsUpTo(ExtractTokens, MaxSqlLen) : IsExpression(sql)}

ExtractRefPool == {None, Some(<<"revenue">>), Some(<<"order_count">>), Some(<<"orders", "revenue">>)}

ExtractPool ==
    {MetricSimple("t", "sum", Some(<<Id(<<"revenue">>)>>)), MetricSimple("t", "count", None)}
    \cup {Metric("t", "ratio", None, None, num, den, None) :
            num \in ExtractRefPool, den \in ExtractRefPool}
    \cup {Metric("t", "derived", None, sql, None, None, None) :
            sql \in {None} \cup {Some(e) : e \in ExtractSqlPool}}
    \cup {Metric("t", "cumulative", Some("sum"), sql, None, None, None) :
            sql \in {None} \cup {Some(e) : e \in ExtractSqlPool}}
    \cup {Metric("t", "time_comparison", None, None, None, None, base) :
            base \in ExtractRefPool}

\* the caller has a metric in hand, no graph, and has not called yet
InitExtract ==
    /\ models = EmptyMap
    /\ adjacency = EmptyMap
    /\ \E metric \in ExtractPool :
          call = [op |-> "extract_dependencies", metric |-> metric, returned |-> FALSE]
    /\ ret = Ok({})
    /\ NoProcess

ExtractDependencies ==
    /\ call.op = "extract_dependencies"
    /\ ~call.returned
    /\ call' = [call EXCEPT !.returned = TRUE]
    /\ ret' = Ok(extract_dependencies(call.metric, None, <<>>))
    /\ UNCHANGED <<models, adjacency>>

NextExtract == ExtractDependencies /\ UNCHANGED process

SpecExtract == InitExtract /\ [][NextExtract]_vars

\* the text holds '.', no whitespace and none of + - * / ( ) , > < =
SimpleQualifiedReference(sql) ==
    /\ \E i \in DOMAIN sql : Len(sql[i].v) > 1
    /\ \A i \in DOMAIN sql : sql[i].t # "ws" /\ Separator(sql, i) = ""
    /\ \A i \in DOMAIN sql : sql[i].t # "op"

\* the column names occurring in an expression
NamesIn(sql) == {sql[i].v : i \in {j \in DOMAIN sql : sql[j].t = "id"}}

\* C20: extract_dependencies(metric, none) returns the empty set for a simple
\* metric, the numerator and the denominator for a ratio, the sql for a
\* cumulative metric, the base_metric for a time comparison, and for a derived
\* metric the sql itself when it is a simple qualified reference and the set
\* of column names occurring in the expression otherwise.
C20_DependenciesByKind ==
    (call.op = "extract_dependencies" /\ call.returned) =>
        LET metric == call.metric
            deps == ret.val
        IN  CASE metric.type = "simple" -> deps = {}
              [] metric.type = "ratio" ->
                    deps = Range(metric.numerator) \cup Range(metric.denominator)
              [] metric.type = "cumulative" ->
                    deps = {SqlString(sql) : sql \in Range(metric.sql)}
              [] metric.type = "time_comparison" -> deps = Range(metric.base_metric)
              [] metric.type = "derived" ->
                    (\A sql \in Range(metric.sql) :
                        IF SimpleQualifiedReference(sql)
                        THEN deps = {SqlString(sql)}
                        ELSE deps = NamesIn(sql))
                    /\ (metric.sql = None => deps = {})

(***************************************************************************)
(* extract_dependencies with a graph, on one metric.                       *)
(***************************************************************************)

ResolveTokens ==
    {Id(<<"a">>), Id(<<"c">>), Id(<<"zz">>), Id(<<"m", "a">>), Num("2"), Op("+"), Ws(" ")}

ResolveSqlPool == {sql \in SeqsUpTo(ResolveTokens, MaxSqlLen) : IsExpression(sql)}

ResolveRefPool == {None, Some(<<"a">>), Some(<<"zz">>), Some(<<"m", "a">>)}

ResolvePool ==
    {MetricSimple("t", "sum", Some(<<Id(<<"a">>)>>))}
    \cup {Metric("t", "ratio", None, None, num, den, None) :
            num \in ResolveRefPool, den \in ResolveRefPool}
    \cup {Metric("t", "derived", None, sql, None, None, None) :
            sql \in {None} \cup {Some(e) : e \in ResolveSqlPool}}
    \cup {Metric("t", "cumulative", Some("sum"), Some(<<Id(ref)>>), None, None, None) :
            ref \in {<<"a">>, <<"zz">>, <<"m", "a">>}}
    \cup {Metric("t", "time_comparison", None, None, None, None, base) :
            base \in ResolveRefPool}

\* the caller has a graph and a metric in hand and has not called yet
InitResolve ==
    /\ \E S \in SUBSET DepCatalog :
          /\ models = GraphOf(S)
          /\ adjacency = rebuild_adjacency(EmptyMap, GraphOf(S),
                                           CHOOSE o \in Orderings(DOMAIN GraphOf(S)) : TRUE, 1)
    /\ \E metric \in ResolvePool :
          call = [op |-> "extract_dependencies", metric |-> metric, order |-> <<>>,
                  returned |-> FALSE]
    /\ ret = Ok({})
    /\ NoProcess

\* graph.models() iterates the map's values in an order the caller cannot choose
ExtractDependenciesWithGraph ==
    /\ call.op = "extract_dependencies"
    /\ ~call.returned
    /\ \E order \in Orderings(DOMAIN models) :
          /\ call' = [call EXCEPT !.returned = TRUE, !.order = order]
          /\ ret' = Ok(extract_dependencies(call.metric, Some(models), order))
    /\ UNCHANGED <<models, adjacency>>

NextResolve == ExtractDependenciesWithGraph /\ UNCHANGED process

SpecResolve == InitResolve /\ [][NextResolve]_vars

\* the models of the graph that define a metric called name
Definers(name) ==
    {n \in DOMAIN models : \E i \in DOMAIN models[n].metrics : models[n].metrics[i].name = name}

\* the first of a set of models in an iteration order
FirstOf(order, S) ==
    order[CHOOSE i \in DOMAIN order : order[i] \in S /\ \A j \in 1..(i - 1) : order[j] \notin S]

Resolved(ref, order) ==
    IF Len(ref) > 1 \/ Definers(ref[1]) = {} THEN ref
    ELSE <<FirstOf(order, Definers(ref[1]))>> \o ref

\* one qualified reference and nothing else but whitespace
IsQualifiedReference(sql) ==
    Len(WithoutWs(sql)) = 1 /\ Len(WithoutWs(sql)[1].v) > 1

Col(table, name) == [k |-> "column", table |-> table, name |-> name]
AliasE(this, alias) == [k |-> "alias", this |-> this, alias |-> alias]
StarE == [k |-> "star"]
Lit(v) == [k |-> "literal", v |-> v]
Ident(text) == [k |-> "identifier", name |-> text]
Bin(op, left, right) == [k |-> "binary", op |-> op, left |-> left, right |-> right]
\* Expression::Sum / Avg / Min / Max / Median over AggFunc
AggE(kind, this) == [k |-> kind, this |-> this, distinct |-> FALSE]
\* Expression::Count over CountFunc
CountE(this, star, distinct) == [k |-> "count", this |-> this, star |-> star, distinct |-> distinct]
\* Expression::Function
FuncE(name, args) == [k |-> "function", name |-> name, args |-> args]

\* Expression::qualified_column
qualified_column(table, name) == Col(Some(table), name)

TableRef(catalog, schema, name, alias, explicit_as) ==
    [k |-> "table", catalog |-> catalog, schema |-> schema, name |-> name,
     alias |-> alias, alias_explicit_as |-> explicit_as]

Join(this, on) == [this |-> this, on |-> on, kind |-> "left"]

\* the children of a node, in the order a depth-first walk visits them
Children(e) ==
    CASE e.k = "alias" -> <<e.this>>
      [] e.k = "binary" -> <<e.left, e.right>>
      [] e.k \in {"sum", "avg", "min", "max", "median"} -> <<e.this>>
      [] e.k = "count" -> e.this
      [] e.k = "function" -> e.args
      [] OTHER -> <<>>

\* expr.dfs(): every node of the tree
RECURSIVE Nodes(_)
Nodes(e) == {e} \cup UNION {Nodes(Children(e)[i]) : i \in DOMAIN Children(e)}

\* a dotted string from its parts
RECURSIVE JoinDots(_)
JoinDots(parts) ==
    IF Len(parts) = 0 THEN ""
    ELSE IF Len(parts) = 1 THEN parts[1]
    ELSE parts[1] \o "." \o JoinDots(Tail(parts))

\* the text of a SQL fragment
SqlText(sql) == JoinDots(SqlString(sql))

\* the parser on a single token
ParseAtom(tok) ==
    CASE tok.t = "id" /\ Len(tok.v) = 1 -> Col(None, tok.v[1])
      [] tok.t = "id" /\ Len(tok.v) = 2 -> Col(Some(tok.v[1]), tok.v[2])
      [] tok.t = "num" -> Lit(tok.v[1])
      [] tok.t = "op" /\ tok.v[1] = "*" -> StarE
      [] OTHER -> Ident(tok.v[1])

IsAtom(tok) == tok.t \in {"id", "num"} \/ (tok.t = "op" /\ tok.v[1] = "*")

\* a function call  NAME ( atom )
IsCall(toks) ==
    /\ Len(toks) = 4
    /\ toks[1].t = "kw"
    /\ toks[2] = [t |-> "op", v |-> <<"(">>]
    /\ IsAtom(toks[3])
    /\ toks[4] = [t |-> "op", v |-> <<")">>]

ParseCall(toks) ==
    LET name == toks[1].v[1]
        arg == ParseAtom(toks[3])
    IN  CASE name = "SUM" -> AggE("sum", arg)
          [] name = "AVG" -> AggE("avg", arg)
          [] name = "MIN" -> AggE("min", arg)
          [] name = "MAX" -> AggE("max", arg)
          [] name = "MEDIAN" -> AggE("median", arg)
          [] name = "COUNT" -> IF arg = StarE THEN CountE(None, TRUE, FALSE)
                               ELSE CountE(Some(arg), FALSE, FALSE)
          [] OTHER -> FuncE(name, <<arg>>)

IsTerm(toks) == (Len(toks) = 1 /\ IsAtom(toks[1])) \/ IsCall(toks)
ParseTerm(toks) == IF Len(toks) = 1 THEN ParseAtom(toks[1]) ELSE ParseCall(toks)

IsBinOp(tok) == tok.t = "op" /\ tok.v[1] \in {"+", "-", "*", "/", "=", "<", ">"}

\* the places where a fragment splits into  term op term
Splits(toks) ==
    {i \in 2..(Len(toks) - 1) :
        /\ IsBinOp(toks[i])
        /\ IsTerm(SubSeq(toks, 1, i - 1))
        /\ IsTerm(SubSeq(toks, i + 1, Len(toks)))}

\* parse_sql_fragment: the first projection item of "SELECT {sql}", and the
\* fragment as an identifier when it does not parse
parse_sql_fragment(sql) ==
    IF IsTerm(sql) THEN ParseTerm(sql)
    ELSE IF Splits(sql) # {}
         THEN LET i == CHOOSE j \in Splits(sql) : TRUE
              IN  Bin(sql[i].v[1], ParseTerm(SubSeq(sql, 1, i - 1)),
                      ParseTerm(SubSeq(sql, i + 1, Len(sql))))
         ELSE Ident(SqlText(sql))

\* Dimension::sql_expr
dimension_sql_expr(d) == UnwrapOr(d.sql, d.name)

\* Metric::sql_expr : the sql, else the metric's name
metric_sql_expr(m) == UnwrapOr(m.sql, <<Id(<<m.name>>)>>)

\* Model::table_name : the table, else the model's name
table_name(model) == UnwrapOr(model.table, <<model.name>>)

\* Model::table_source : "(sql)" for a subquery model, else table_name
table_source(model) ==
    IF IsSome(model.sql) THEN <<"(" \o Unwrap(model.sql) \o ")">> ELSE table_name(model)

Dimension(name, type, sql, granularity) ==
    [name |-> name, type |-> type, sql |-> sql, granularity |-> granularity]

\* make_table_ref: a possibly-qualified table name split on '.'
make_table_ref(full_name) ==
    CASE Len(full_name) = 2 -> TableRef(None, Some(full_name[1]), full_name[2], None, FALSE)
      [] Len(full_name) = 3 ->
            TableRef(Some(full_name[1]), Some(full_name[2]), full_name[3], None, FALSE)
      [] OTHER -> TableRef(None, None, JoinDots(full_name), None, FALSE)

\* make_table_ref_with_alias
make_table_ref_with_alias(full_name, alias) ==
    [make_table_ref(full_name) EXCEPT !.alias = Some(alias), !.alias_explicit_as = TRUE]

(***************************************************************************)
(* sql/rewriter.rs : QueryRewriter                                         *)
(***************************************************************************)

\* what an unwrap() of None leaves in place of an expression: the call panics
PanicE == [k |-> "panic"]

\* the wildcard test of metric_to_expr (rewriter.rs:267-268)
use_wildcard(metric) ==
    \/ (IsSome(metric.sql) /\ SqlText(Unwrap(metric.sql)) = "*")
    \/ (Unwrap(metric.agg) = "count" /\ ~IsSome(metric.sql))

\* metric_to_expr.  Cumulative and time_comparison metrics go through
\* Metric::to_sql, which has no arm for them in core/model.rs; the catalogues
\* hold none.
metric_to_expr(metric, alias) ==
    CASE metric.type = "simple" ->
            IF metric.agg = Some("expression") THEN parse_sql_fragment(metric_sql_expr(metric))
            ELSE IF ~IsSome(metric.agg) THEN PanicE
            ELSE IF use_wildcard(metric) THEN CountE(None, TRUE, FALSE)
            ELSE LET agg == Unwrap(metric.agg)
                     col_expr == qualified_column(alias, SqlText(metric_sql_expr(metric)))
                 IN  (CASE agg = "sum" -> AggE("sum", col_expr)
                        [] agg = "count" -> CountE(Some(col_expr), FALSE, FALSE)
                        [] agg = "count_distinct" -> CountE(Some(col_expr), FALSE, TRUE)
                        [] agg = "avg" -> AggE("avg", col_expr)
                        [] agg = "min" -> AggE("min", col_expr)
                        [] agg = "max" -> AggE("max", col_expr)
                        [] agg = "median" -> AggE("median", col_expr))
      [] metric.type \in {"derived", "ratio"} -> parse_sql_fragment(metric_sql_expr(metric))

\* model_name.chars().next().unwrap_or('t') over the model names in use
FirstChar(name) ==
    CASE name = "orders" -> "o"
      [] name = "customers" -> "c"
      [] name = "categories" -> "c"
      [] name = "regions" -> "r"
      [] name = "products" -> "p"
      [] name = "Partners" -> "P"
      [] name = "hub" -> "h"
      [] name = "" -> "t"

\* find_model_references: the (model, alias) pairs of the FROM clause
RECURSIVE FromRefs(_, _, _)
FromRefs(ms, exprs, i) ==
    IF i > Len(exprs) THEN <<>>
    ELSE LET e == exprs[i]
             here == IF e.k = "table" /\ IsSome(get_model(ms, e.name))
                     THEN << <<e.name, UnwrapOr(e.alias, e.name)>> >>
                     ELSE <<>>
         IN  here \o FromRefs(ms, exprs, i + 1)

find_model_references(ms, from) ==
    IF ~IsSome(from) THEN <<>> ELSE FromRefs(ms, Unwrap(from).expressions, 1)

\* collect_model_refs_from_expr: the qualifiers that are model names
collect_model_refs_from_expr(ms, expr) ==
    {Unwrap(n.table) : n \in {x \in Nodes(expr) :
        x.k = "column" /\ IsSome(x.table) /\ IsSome(get_model(ms, Unwrap(x.table)))}}

\* find_referenced_models
find_referenced_models(ms, projection) ==
    UNION {collect_model_refs_from_expr(ms, projection[i]) : i \in DOMAIN projection}

\* model_refs.iter().find(|(m, a)| m == name || a == name)
FindRef(model_refs, name) ==
    LET hits == {i \in DOMAIN model_refs : model_refs[i][1] = name \/ model_refs[i][2] = name}
    IN  IF hits = {} THEN None
        ELSE Some(model_refs[CHOOSE i \in hits : \A j \in hits : i <= j])

\* model_refs.iter().find(|(m, _)| m == name).map(|(_, a)| a).unwrap_or(name)
AliasOf(model_refs, name) ==
    LET hits == {i \in DOMAIN model_refs : model_refs[i][1] = name}
    IN  IF hits = {} THEN name
        ELSE model_refs[CHOOSE i \in hits : \A j \in hits : i <= j][2]

\* the closure of rewrite_expr on one column node: dimensions only
RewriteColumn(ms, col, model_refs) ==
    IF ~IsSome(col.table) THEN col
    ELSE LET ref == FindRef(model_refs, Unwrap(col.table)) IN
         IF ~IsSome(ref) THEN col
         ELSE LET model == get_model(ms, Unwrap(ref)[1]) IN
              IF ~IsSome(model) THEN col
              ELSE LET dimension == get_dimension(Unwrap(model), col.name) IN
                   IF IsSome(dimension)
                   THEN qualified_column(Unwrap(ref)[2], dimension_sql_expr(Unwrap(dimension)))
                   ELSE col

\* rewrite_expr: transform_map over every node of the tree
RECURSIVE rewrite_expr(_, _, _)
rewrite_expr(ms, e, model_refs) ==
    CASE e.k = "column" -> RewriteColumn(ms, e, model_refs)
      [] e.k = "alias" -> [e EXCEPT !.this = rewrite_expr(ms, @, model_refs)]
      [] e.k = "binary" -> [e EXCEPT !.left = rewrite_expr(ms, @, model_refs),
                                     !.right = rewrite_expr(ms, @, model_refs)]
      [] e.k \in {"sum", "avg", "min", "max", "median"} ->
            [e EXCEPT !.this = rewrite_expr(ms, @, model_refs)]
      [] e.k = "count" ->
            [e EXCEPT !.this = [i \in DOMAIN @ |-> rewrite_expr(ms, @[i], model_refs)]]
      [] e.k = "function" ->
            [e EXCEPT !.args = [i \in DOMAIN @ |-> rewrite_expr(ms, @[i], model_refs)]]
      [] OTHER -> e

\* the precedence of rewrite_select_expr between a metric and a dimension of
\* the same name (rewriter.rs:235-246)
DimensionFirst(model, field_name, alias, expr) ==
    LET metric == get_metric(model, field_name)
        dimension == get_dimension(model, field_name)
    IN  IF IsSome(dimension)
        THEN qualified_column(alias, dimension_sql_expr(Unwrap(dimension)))
        ELSE IF IsSome(metric) THEN metric_to_expr(Unwrap(metric), alias)
        ELSE expr
SubstituteField(model, field_name, alias, expr) ==
    LET metric == get_metric(model, field_name)
        dimension == get_dimension(model, field_name)
    IN  IF IsSome(metric) THEN metric_to_expr(Unwrap(metric), alias)
        ELSE IF IsSome(dimension)
        THEN qualified_column(alias, dimension_sql_expr(Unwrap(dimension)))
        ELSE expr

\* rewrite_select_expr
rewrite_select_expr(ms, expr, model_refs) ==
    IF expr.k = "column" /\ IsSome(expr.table)
    THEN LET ref == FindRef(model_refs, Unwrap(expr.table)) IN
         IF IsSome(ref)
         THEN SubstituteField(Unwrap(get_model(ms, Unwrap(ref)[1])), expr.name,
                              Unwrap(ref)[2], expr)
         ELSE expr
    ELSE rewrite_expr(ms, expr, model_refs)

\* one item of rewrite_projection
rewrite_projection_item(ms, item, model_refs) ==
    CASE item.k = "alias" -> [item EXCEPT !.this = rewrite_select_expr(ms, @, model_refs)]
      [] item.k = "star" -> item
      [] OTHER -> rewrite_select_expr(ms, item, model_refs)

\* rewrite_projection
rewrite_projection(ms, projection, model_refs) ==
    [i \in DOMAIN projection |-> rewrite_projection_item(ms, projection[i], model_refs)]

\* build_default_join_condition
build_default_join_condition(from_alias, from_key, to_alias, to_key) ==
    Bin("=", qualified_column(from_alias, from_key), qualified_column(to_alias, to_key))

\* the body of the loop over the steps of one join path (rewriter.rs:379-440);
\* JoinStep has no custom_condition in core/graph.rs, so the default
\* condition is the one built.  acc = [panic, joins]
RECURSIVE StepJoins(_, _, _, _, _)
StepJoins(ms, steps, i, model_refs, acc) ==
    IF i > Len(steps) THEN acc
    ELSE LET step == steps[i]
             target_model == get_model(ms, step.to_model)
         IN  IF ~IsSome(target_model) THEN [acc EXCEPT !.panic = TRUE]
             ELSE LET to_alias == AliasOf(model_refs, step.to_model)
                      from_alias == AliasOf(model_refs, step.from_model)
                      join_condition == build_default_join_condition(
                                            from_alias, step.from_key, to_alias, step.to_key)
                      join_table == make_table_ref_with_alias(
                                        table_name(Unwrap(target_model)), to_alias)
                  IN  StepJoins(ms, steps, i + 1, model_refs,
                                [acc EXCEPT !.joins = Append(@, Join(join_table, join_condition))])

\* what rewrite_from_with_joins does with the result of find_join_path
\* (rewriter.rs:376-378): `if let Ok(join_path)`, an Err is dropped
JoinsForPath(ms, path, model_refs, acc) ==
    IF path.ok THEN StepJoins(ms, path.val, 1, model_refs, acc) ELSE acc

\* the loop over models_to_join (rewriter.rs:375-442)
RECURSIVE TargetJoins(_, _, _, _, _, _, _)
TargetJoins(ms, adj, base, models_to_join, i, model_refs, acc) ==
    IF i > Len(models_to_join) \/ acc.panic THEN acc
    ELSE TargetJoins(ms, adj, base, models_to_join, i + 1, model_refs,
                     JoinsForPath(ms, find_join_path(ms, adj, base, models_to_join[i]),
                                  model_refs, acc))

\* the physical name put in place of a model in FROM (rewriter.rs:445)
FromSource(model) == table_name(model)

\* the loop over from.expressions (rewriter.rs:368-455); acc = [panic, joins, from]
RECURSIVE FromLoop(_, _, _, _, _, _, _, _)
FromLoop(ms, adj, exprs, i, model_refs, base_model, models_to_join, acc) ==
    IF i > Len(exprs) \/ acc.panic THEN acc
    ELSE LET e == exprs[i]
             model == IF e.k = "table" THEN get_model(ms, e.name) ELSE None
         IN  IF IsSome(model)
             THEN LET joined == IF Some(e.name) = base_model
                                THEN TargetJoins(ms, adj, e.name, models_to_join, 1,
                                                 model_refs, acc)
                                ELSE acc
                      new_table == [make_table_ref(FromSource(Unwrap(model)))
                                       EXCEPT !.alias = e.alias,
                                              !.alias_explicit_as = e.alias_explicit_as]
                  IN  FromLoop(ms, adj, exprs, i + 1, model_refs, base_model, models_to_join,
                               [joined EXCEPT !.from = Append(@, new_table)])
             ELSE FromLoop(ms, adj, exprs, i + 1, model_refs, base_model, models_to_join,
                           [acc EXCEPT !.from = Append(@, e)])

\* rewrite_from_with_joins
rewrite_from_with_joins(ms, adj, from, existing_joins, model_refs, base_model, models_to_join) ==
    IF ~IsSome(from)
    THEN [panic |-> FALSE, joins |-> existing_joins, from |-> None]
    ELSE LET r == FromLoop(ms, adj, Unwrap(from).expressions, 1, model_refs, base_model,
                           models_to_join,
                           [panic |-> FALSE, joins |-> existing_joins, from |-> <<>>])
         IN  [r EXCEPT !.from = Some([expressions |-> r.from])]

Unaliased(item) == IF item.k = "alias" THEN item.this ELSE item

\* is_aggregate_function_name
AggregateFunctionNames ==
    {"SUM", "COUNT", "AVG", "MIN", "MAX", "MEDIAN", "COUNT_DISTINCT",
     "STDDEV", "STDDEV_POP", "STDDEV_SAMP", "VARIANCE", "VAR_POP", "VAR_SAMP",
     "CORR", "COVAR_POP", "COVAR_SAMP",
     "REGR_SLOPE", "REGR_INTERCEPT", "REGR_COUNT", "REGR_R2",
     "REGR_AVGX", "REGR_AVGY", "REGR_SXX", "REGR_SYY", "REGR_SXY",
     "PERCENTILE_CONT", "PERCENTILE_DISC", "MODE",
     "BOOL_AND", "BOOL_OR", "EVERY", "BIT_AND", "BIT_OR", "BIT_XOR",
     "ARRAY_AGG", "STRING_AGG", "GROUP_CONCAT", "LISTAGG", "COLLECT_LIST", "COLLECT_SET",
     "APPROX_COUNT_DISTINCT", "APPROX_PERCENTILE", "HLL_COUNT_DISTINCT", "APPROX_TOP_COUNT",
     "ANY_VALUE", "FIRST_VALUE", "LAST_VALUE", "NTH_VALUE", "XMLAGG", "JSON_ARRAYAGG",
     "JSON_OBJECTAGG"}

is_aggregate_function_name(name) == name \in AggregateFunctionNames

\* is_aggregation
is_aggregation(expr) ==
    \/ expr.k \in {"sum", "count", "avg", "min", "max", "median", "aggregate_function"}
    \/ (expr.k = "function" /\ is_aggregate_function_name(expr.name))

\* has_aggregations
has_aggregations(projection) ==
    \E i \in DOMAIN projection : is_aggregation(Unaliased(projection[i]))

\* has_non_aggregated_columns
has_non_aggregated_columns(projection) ==
    \E i \in DOMAIN projection : ~is_aggregation(Unaliased(projection[i]))

\* the positional reference build_group_by pushes for item i (0-based)
PositionZeroBased(i) == Lit(ToString(i))
Position(i) == Lit(ToString(i + 1))

\* build_group_by
RECURSIVE GroupByLoop(_, _)
GroupByLoop(projection, i) ==
    IF i >= Len(projection) THEN <<>>
    ELSE (IF ~is_aggregation(Unaliased(projection[i + 1])) THEN <<Position(i)>> ELSE <<>>)
         \o GroupByLoop(projection, i + 1)

build_group_by(projection) == [expressions |-> GroupByLoop(projection, 0)]

\* the order in which models_to_join lists referenced \ in_from: the
\* iteration order of a HashSet
ModelsToJoin(ms, select) ==
    LET model_refs == find_model_references(ms, select.from)
        referenced == find_referenced_models(ms, select.expressions)
                      \cup (IF IsSome(select.where_clause)
                            THEN collect_model_refs_from_expr(ms, Unwrap(select.where_clause))
                            ELSE {})
    IN  referenced \ {model_refs[i][1] : i \in DOMAIN model_refs}

\* the condition under which rewrite_select returns the select as it is
\* (rewriter.rs:57-60)
NeverPassthrough(model_refs) == FALSE
IsPassthrough(model_refs) == model_refs = <<>>

\* rewrite_select; models_to_join is ModelsToJoin in its iteration order
rewrite_select(ms, adj, select, models_to_join) ==
    LET from_refs == find_model_references(ms, select.from) IN
    IF IsPassthrough(from_refs) THEN Ok(select)
    ELSE LET base_model == IF from_refs = <<>> THEN None ELSE Some(from_refs[1][1])
             model_refs == from_refs \o [i \in DOMAIN models_to_join |->
                               <<models_to_join[i], FirstChar(models_to_join[i])>>]
             expressions == rewrite_projection(ms, select.expressions, model_refs)
             fj == rewrite_from_with_joins(ms, adj, select.from, select.joins, model_refs,
                                           base_model, models_to_join)
             where_clause == [i \in DOMAIN select.where_clause |->
                                 rewrite_expr(ms, select.where_clause[i], model_refs)]
             group_by == IF has_aggregations(expressions) /\ has_non_aggregated_columns(expressions)
                         THEN Some(build_group_by(expressions))
                         ELSE select.group_by
         IN  IF fj.panic \/ \E i \in DOMAIN expressions : PanicE \in Nodes(expressions[i])
             THEN Err("panic", <<>>)
             ELSE Ok([select EXCEPT !.expressions = expressions, !.from = fj.from,
                                    !.joins = fj.joins, !.where_clause = where_clause,
                                    !.group_by = group_by])

\* rewrite_top_level
rewrite_top_level(ms, adj, expr, models_to_join) ==
    IF expr.k = "select" THEN rewrite_select(ms, adj, expr, models_to_join) ELSE Ok(expr)

\* the loop of rewrite over the parsed statements (rewriter.rs:32-38); orders[i]
\* is the iteration order of models_to_join in statement i
RECURSIVE RewriteLoop(_, _, _, _, _, _)
RewriteLoop(ms, adj, expressions, orders, i, results) ==
    IF i > Len(expressions) THEN Ok(results)
    ELSE LET rewritten == rewrite_top_level(ms, adj, expressions[i], orders[i])
         IN  IF ~rewritten.ok THEN rewritten
             ELSE RewriteLoop(ms, adj, expressions, orders, i + 1,
                              Append(results, rewritten.val))

\* QueryRewriter::rewrite on the outcome of the parser: None when the text
\* does not parse, else the statements
rewrite(ms, adj, parsed, orders) ==
    IF ~IsSome(parsed) THEN Err("SqlParse", <<"parse">>)
    ELSE IF Unwrap(parsed) = <<>> THEN Err("SqlParse", <<"Empty SQL">>)
    ELSE RewriteLoop(ms, adj, Unwrap(parsed), orders, 1, <<>>)

(***************************************************************************)
(* The rewriter applied to bounded queries on graphs of four models.       *)
(***************************************************************************)

MaxProj == 2

Kw(text) == [t |-> "kw", v |-> <<text>>]

Select(expressions, from, joins, where_clause, group_by) ==
    [k |-> "select", expressions |-> expressions, from |-> from, joins |-> joins,
     where_clause |-> where_clause, group_by |-> group_by, limit |-> Some(Lit("10"))]

From(expressions) == Some([expressions |-> expressions])
Table(name, alias) == TableRef(None, None, name, alias, IsSome(alias))

OrdersModel(relationships) ==
    Model("orders", Some(<<"public", "orders">>), None,
          <<Dimension("status", "categorical", None, None),
            Dimension("order_date", "time", Some("created_at"), None),
            Dimension("both", "categorical", None, None)>>,
          <<MetricSimple("revenue", "sum", Some(<<Id(<<"amount">>)>>)),
            MetricSimple("both", "count", Some(<<Op("*")>>)),
            MetricRatio("margin", <<"revenue">>, <<"both">>)>>,
          relationships)

CustomersModel(relationships) ==
    Model("customers", Some(<<"public", "customers">>), None,
          <<Dimension("country", "categorical", None, None)>>, <<>>, relationships)

\* a subquery model: sql and no table
RegionsModel ==
    Model("regions", None, Some("SELECT * FROM raw_regions"),
          <<Dimension("name", "categorical", Some("region_name"), None)>>, <<>>, <<>>)

ProductsModel ==
    Model("products", Some(<<"products">>), None,
          <<Dimension("sku", "categorical", None, None)>>, <<>>, <<>>)

ToCustomers == Relationship("customers", "many_to_one", None, None)
ToRegions == Relationship("regions", "many_to_one", Some("region_code"), Some("code"))

\* the graphs: orders alone, a chain, a star, a triangle, and no relationship
RewriteGraphs ==
    {GraphOf({OrdersModel(o), CustomersModel(c), RegionsModel, ProductsModel}) :
        o \in {<<>>, <<ToCustomers>>, <<ToCustomers, ToRegions>>},
        c \in {<<>>, <<ToRegions>>}}

ItemPool ==
    {Col(Some("orders"), "revenue"),
     AliasE(Col(Some("orders"), "order_date"), "d"),
     Col(Some("customers"), "country"),
     Col(Some("o"), "both"),
     Col(Some("products"), "sku"),
     Bin("+", Col(Some("orders"), "status"), Col(Some("orders"), "revenue")),
     Bin("*", AggE("sum", Col(Some("orders"), "status")), Lit("2")),
     StarE,
     Col(Some("orders"), "margin"),
     Col(Some("orders"), "missing")}

FromPool ==
    {None,
     From(<<Table("orders", None)>>),
     From(<<Table("orders", Some("o"))>>),
     From(<<Table("orders", Some("c"))>>),
     From(<<Table("some_table", None)>>),
     From(<<Table("regions", None)>>),
     From(<<Table("orders", None), Table("customers", Some("cu"))>>)}

WherePool == {None, Some(Bin("=", Col(Some("regions"), "name"), Lit("'EU'")))}

GroupByPool == {None, Some([expressions |-> <<Col(None, "legacy")>>])}

\* DELETE FROM orders WHERE orders.status = 'x'
OtherStatement ==
    [k |-> "delete", from |-> From(<<Table("orders", None)>>),
     where_clause |-> Some(Bin("=", Col(Some("orders"), "status"), Lit("'x'")))]

Projections == SeqsUpTo(ItemPool, MaxProj) \ {<<>>}

Selects ==
    {Select(p, f, <<>>, w, g) : p \in Projections, f \in FromPool, w \in WherePool,
                                 g \in GroupByPool}

\* what the parser hands to rewrite: nothing (a parse error), no statement,
\* or a SELECT alone, after or before another statement
ParsedInputs ==
    {None, Some(<<>>), Some(<<OtherStatement>>)}
    \cup {Some(<<s>>) : s \in Selects}
    \cup {Some(<<s, OtherStatement>>) : s \in Selects}

\* the iteration orders of models_to_join, one per statement
JoinOrders(ms, stmt) ==
    IF stmt.k = "select" THEN Orderings(ModelsToJoin(ms, stmt))
    ELSE {<<>>}

RECURSIVE StatementOrders(_, _)
StatementOrders(ms, stmts) ==
    IF stmts = <<>> THEN {<<>>}
    ELSE {<<o>> \o rest : o \in JoinOrders(ms, Head(stmts)),
                           rest \in StatementOrders(ms, Tail(stmts))}

\* the caller has a graph and a parsed query in hand and has not called yet
InitRewrite ==
    /\ \E g \in RewriteGraphs :
          /\ models = g
          /\ \E order \in ModelOrders(g) : adjacency = rebuild_adjacency(EmptyMap, g, order, 1)
    /\ \E parsed \in ParsedInputs :
          call = [op |-> "rewrite", parsed |-> parsed, returned |-> FALSE]
    /\ ret = Ok(<<>>)
    /\ NoProcess

Rewrite ==
    /\ call.op = "rewrite"
    /\ ~call.returned
    /\ call' = [call EXCEPT !.returned = TRUE]
    /\ \E orders \in StatementOrders(models, UnwrapOr(call.parsed, <<>>)) :
          ret' = rewrite(models, adjacency, call.parsed, orders)
    /\ UNCHANGED <<models, adjacency>>

NextRewrite == Rewrite /\ UNCHANGED process

SpecRewrite == InitRewrite /\ [][NextRewrite]_vars

(***************************************************************************)
(* Properties of a returned rewrite.                                       *)
(***************************************************************************)

RewriteReturned == call.op = "rewrite" /\ call.returned
Input == UnwrapOr(call.parsed, <<>>)

\* a SELECT whose FROM clause names a model of the graph
IsModelSelect(stmt) == stmt.k = "select" /\ find_model_references(models, stmt.from) # <<>>

BaseOf(stmt) == find_model_references(models, stmt.from)[1][1]

\* the (model, alias) pairs in scope: those of FROM and the auto-joined ones
ScopeRefs(stmt) ==
    Range(find_model_references(models, stmt.from))
        \cup {<<m, FirstChar(m)>> : m \in ModelsToJoin(models, stmt)}

ScopeHits(stmt, qualifier) ==
    {r \in ScopeRefs(stmt) : r[1] = qualifier \/ r[2] = qualifier}

\* a qualified column whose qualifier is the name or the alias of one model in scope
ResolvesInScope(stmt, e) ==
    e.k = "column" /\ IsSome(e.table) /\ Cardinality(ScopeHits(stmt, Unwrap(e.table))) = 1

ScopeRefOf(stmt, e) == CHOOSE r \in ScopeHits(stmt, Unwrap(e.table)) : TRUE

RECURSIVE NonAggregatePositions(_, _)
NonAggregatePositions(projection, i) ==
    IF i > Len(projection) THEN <<>>
    ELSE (IF is_aggregation(Unaliased(projection[i])) THEN <<>> ELSE <<Lit(ToString(i))>>)
         \o NonAggregatePositions(projection, i + 1)

ExpectedGroupBy(in, out) ==
    LET pos == NonAggregatePositions(out.expressions, 1)
    IN  IF 0 < Len(pos) /\ Len(pos) < Len(out.expressions)
        THEN Some([expressions |-> pos])
        ELSE in.group_by

JoinsOf(out, t) ==
    {j \in DOMAIN out.joins :
        /\ out.joins[j].kind = "left"
        /\ out.joins[j].this.k = "table"
        /\ out.joins[j].this.alias = Some(FirstChar(t))}

AliasInScope(stmt, m) ==
    LET hits == {r \in ScopeRefs(stmt) : r[1] = m}
    IN  IF hits = {} THEN m ELSE (CHOOSE r \in hits : TRUE)[2]

\* the ON condition of the last step of find_join_path(base, t)
ExpectedOn(stmt, t) ==
    LET path == find_join_path(models, adjacency, BaseOf(stmt), t)
        step == path.val[Len(path.val)]
    IN  Bin("=", Col(Some(AliasInScope(stmt, step.from_model)), step.from_key),
                 Col(Some(AliasInScope(stmt, step.to_model)), step.to_key))

\* C4: whenever rewrite succeeds, every auto-joined model (qualifier of a
\* column of the projection or of WHERE, not in FROM) is the table of exactly
\* one LEFT JOIN of the output, and the ON condition of that join is
\* from_alias.from_key = to_alias.to_key of the step of
\* find_join_path(base, target) that reaches it.
C4_ExactlyOneJoin ==
    (RewriteReturned /\ ret.ok) =>
        \A i \in DOMAIN Input :
            IsModelSelect(Input[i]) =>
                \A t \in ModelsToJoin(models, Input[i]) :
                    /\ Cardinality(JoinsOf(ret.val[i], t)) = 1
                    /\ \A j \in JoinsOf(ret.val[i], t) :
                          ret.val[i].joins[j].on = ExpectedOn(Input[i], t)

\* C5: when a query references, in its projection or in WHERE, a model that is
\* not in FROM and that no path of the graph reaches from the base model,
\* rewrite returns the error NoJoinPath and no SQL.
C5_UnreachableIsNoJoinPath ==
    RewriteReturned =>
        \A i \in DOMAIN Input :
            (/\ IsModelSelect(Input[i])
             /\ \E t \in ModelsToJoin(models, Input[i]) :
                   ~Reachable(adjacency, BaseOf(Input[i]), t))
                => (~ret.ok /\ ret.err = "NoJoinPath")

\* what the projection rules give for the column e of statement stmt
ExpectedColumn(stmt, e) ==
    LET r == ScopeRefOf(stmt, e)
        model == models[r[1]]
        metrics == {x \in Range(model.metrics) : x.name = e.name}
        dimensions == {x \in Range(model.dimensions) : x.name = e.name}
    IN  IF metrics # {} THEN metric_to_expr(Unwrap(get_metric(model, e.name)), r[2])
        ELSE IF dimensions # {}
        THEN Col(Some(r[2]), dimension_sql_expr(Unwrap(get_dimension(model, e.name))))
        ELSE e

ExpectedItem(stmt, item) ==
    IF item.k = "alias" THEN AliasE(ExpectedColumn(stmt, item.this), item.alias)
    ELSE ExpectedColumn(stmt, item)

\* C6: a projection item that is a qualified column m.f, m the name or the
\* alias of a model in scope, becomes the metric expression when f is a metric
\* of that model (also when f is a dimension too), else alias.<dimension sql or
\* name> when f is a dimension, else stays as it is; the item's AS alias stays.
C6_ProjectionSubstitution ==
    (RewriteReturned /\ ret.ok) =>
        \A i \in DOMAIN Input :
            IsModelSelect(Input[i]) =>
                \A j \in DOMAIN Input[i].expressions :
                    ResolvesInScope(Input[i], Unaliased(Input[i].expressions[j])) =>
                        ret.val[i].expressions[j]
                            = ExpectedItem(Input[i], Input[i].expressions[j])

\* o.both, a metric and a dimension of orders, came out as COUNT(*), and the
\* aliased time dimension came out as o.created_at AS d
C6_Witness ==
    /\ RewriteReturned /\ ret.ok
    /\ \E i \in DOMAIN Input :
          /\ Input[i].k = "select"
          /\ Input[i].from = From(<<Table("orders", Some("o"))>>)
          /\ Input[i].expressions = <<Col(Some("o"), "both"),
                                      AliasE(Col(Some("orders"), "order_date"), "d")>>
          /\ ret.val[i].expressions = <<CountE(None, TRUE, FALSE),
                                        AliasE(Col(Some("o"), "created_at"), "d")>>

Paren(e) == [k |-> "paren", this |-> e]

\* (num) / NULLIF(denom, 0)
RatioExpression(metric) ==
    Bin("/", Paren(Col(None, JoinDots(Unwrap(metric.numerator)))),
             FuncE("NULLIF", <<Col(None, JoinDots(Unwrap(metric.denominator))), Lit("0")>>))

\* C8: where rewrite substitutes a ratio metric with numerator num and
\* denominator denom, the expression in the output is (num) / NULLIF(denom, 0).
C8_RatioNullif ==
    (RewriteReturned /\ ret.ok) =>
        \A i \in DOMAIN Input :
            IsModelSelect(Input[i]) =>
                \A j \in DOMAIN Input[i].expressions :
                    LET e == Unaliased(Input[i].expressions[j]) IN
                    (/\ ResolvesInScope(Input[i], e)
                     /\ \E m \in Range(models[ScopeRefOf(Input[i], e)[1]].metrics) :
                           m.name = e.name /\ m.type = "ratio")
                        => Unaliased(ret.val[i].expressions[j])
                            = RatioExpression(Unwrap(get_metric(
                                  models[ScopeRefOf(Input[i], e)[1]], e.name)))

\* C9: a top-level statement that is not a SELECT, and a SELECT whose FROM
\* names no model of the graph, come out of rewrite as they went in:
\* projection, FROM, joins, WHERE and GROUP BY, also when the projection or
\* WHERE holds columns qualified by a model name.
C9_Passthrough ==
    (RewriteReturned /\ Input # <<>>) =>
        /\ (\A i \in DOMAIN Input : ~IsModelSelect(Input[i])) => ret.ok
        /\ ret.ok => \A i \in DOMAIN Input :
                        ~IsModelSelect(Input[i]) => ret.val[i] = Input[i]

\* SELECT orders.revenue, customers.country FROM some_table WHERE
\* regions.name = 'EU' GROUP BY legacy; DELETE ... came out as they went in
C9_Witness ==
    /\ RewriteReturned /\ ret.ok
    /\ Input = <<Select(<<Col(Some("orders"), "revenue"), Col(Some("customers"), "country")>>,
                        From(<<Table("some_table", None)>>), <<>>,
                        Some(Bin("=", Col(Some("regions"), "name"), Lit("'EU'"))),
                        Some([expressions |-> <<Col(None, "legacy")>>])),
                 OtherStatement>>
    /\ ret.val = Input

Subquery(sql, alias) == [k |-> "subquery", sql |-> sql, alias |-> alias]

\* the physical source of a model: its table, or its sql in parentheses
PhysicalSource(model, alias, explicit_as) ==
    IF IsSome(model.table)
    THEN [make_table_ref(Unwrap(model.table)) EXCEPT !.alias = alias,
                                                     !.alias_explicit_as = explicit_as]
    ELSE Subquery(Unwrap(model.sql), alias)

\* C10: in the rewritten FROM and in every synthesized JOIN each model
\* reference is the model's table when the model has one and the model's sql
\* in parentheses when it is a subquery model; a FROM reference keeps its alias.
C10_PhysicalSource ==
    (RewriteReturned /\ ret.ok) =>
        \A i \in DOMAIN Input :
            IsModelSelect(Input[i]) =>
                /\ \A j \in DOMAIN Unwrap(Input[i].from).expressions :
                      LET e == Unwrap(Input[i].from).expressions[j] IN
                      (e.k = "table" /\ e.name \in DOMAIN models)
                          => Unwrap(ret.val[i].from).expressions[j]
                                = PhysicalSource(models[e.name], e.alias, e.alias_explicit_as)
                /\ \A t \in ModelsToJoin(models, Input[i]) :
                      \A j \in DOMAIN ret.val[i].joins :
                          ret.val[i].joins[j].this.alias = Some(FirstChar(t))
                              => ret.val[i].joins[j].this
                                    = PhysicalSource(models[t], Some(FirstChar(t)), TRUE)

\* the lowercase of a first character
Lowercase(c) == IF c = "P" THEN "p" ELSE c

\* the alias a model goes by in the output: the one FROM gives it, else the
\* lowercased first character of its name
OutputAlias(stmt, m) ==
    LET refs == find_model_references(models, stmt.from)
        hits == {r \in DOMAIN refs : refs[r][1] = m}
    IN  IF hits # {} THEN refs[CHOOSE r \in hits : \A q \in hits : r <= q][2]
        ELSE Lowercase(FirstChar(m))

\* C24: in a rewritten SELECT every model that is joined and not named in
\* FROM, an auto-join target or a model a join path only passes through, goes
\* by the first character of its name, lowercased: in the AS of its JOIN, in
\* the ON condition of the step that enters it and of the step that leaves it,
\* and in the substituted columns of that model.
C24_GeneratedAliases ==
    (RewriteReturned /\ ret.ok) =>
        \A i \in DOMAIN Input :
            IsModelSelect(Input[i]) =>
                /\ \A t \in ModelsToJoin(models, Input[i]) :
                      LET path == find_join_path(models, adjacency, BaseOf(Input[i]), t) IN
                      path.ok =>
                          \A k \in DOMAIN path.val :
                              \E j \in DOMAIN ret.val[i].joins :
                                  /\ ret.val[i].joins[j].this.alias
                                        = Some(OutputAlias(Input[i], path.val[k].to_model))
                                  /\ ret.val[i].joins[j].on
                                        = Bin("=",
                                              Col(Some(OutputAlias(Input[i], path.val[k].from_model)),
                                                  path.val[k].from_key),
                                              Col(Some(OutputAlias(Input[i], path.val[k].to_model)),
                                                  path.val[k].to_key))
                /\ \A j \in DOMAIN Input[i].expressions :
                      LET e == Unaliased(Input[i].expressions[j]) IN
                      (/\ e.k = "column"
                       /\ e.table \in {Some(t) : t \in ModelsToJoin(models, Input[i])}
                       /\ IsSome(get_dimension(models[Unwrap(e.table)], e.name))
                       /\ ~IsSome(get_metric(models[Unwrap(e.table)], e.name)))
                          => Unaliased(ret.val[i].expressions[j]).table
                                = Some(OutputAlias(Input[i], Unwrap(e.table)))

\* the tables of the output's FROM and JOINs that are model sources, each
\* with the alias it goes by: its AS alias, else its name
Bindings(out) ==
    LET refs == (IF IsSome(out.from) THEN Range(Unwrap(out.from).expressions) ELSE {})
                    \cup {out.joins[j].this : j \in DOMAIN out.joins}
    IN  {[source |-> [catalog |-> e.catalog, schema |-> e.schema, name |-> e.name],
          alias |-> UnwrapOr(e.alias, e.name)] : e \in {r \in refs : r.k = "table"}}

\* C25: in every rewritten SELECT the aliases bound to distinct models, given
\* in FROM, taken from the model's name or generated for an auto-join, are
\* pairwise distinct: no alias of the output denotes two tables.
C25_DistinctAliases ==
    (RewriteReturned /\ ret.ok) =>
        \A i \in DOMAIN Input :
            IsModelSelect(Input[i]) =>
                \A x, y \in Bindings(ret.val[i]) : x.alias = y.alias => x.source = y.source

\* an aggregate function somewhere in the tree of an expression
HoldsAggregate(e) ==
    \E n \in Nodes(e) :
        \/ n.k \in {"sum", "count", "avg", "min", "max", "median", "aggregate_function"}
        \/ (n.k = "function" /\ n.name \in AggregateFunctionNames)

\* C28: a GROUP BY that rewrite synthesizes holds no positional reference to
\* a projection item with an aggregate function anywhere in its tree, and a
\* projection of which every item holds an aggregate gets no synthesized
\* GROUP BY.
C28_GroupByWithoutAggregates ==
    (RewriteReturned /\ ret.ok) =>
        \A i \in DOMAIN Input :
            (IsModelSelect(Input[i]) /\ ret.val[i].group_by # Input[i].group_by) =>
                /\ IsSome(ret.val[i].group_by)
                /\ \A j \in DOMAIN ret.val[i].expressions :
                      Lit(ToString(j)) \in Range(Unwrap(ret.val[i].group_by).expressions)
                          => ~HoldsAggregate(ret.val[i].expressions[j])
                /\ \E j \in DOMAIN ret.val[i].expressions :
                      ~HoldsAggregate(ret.val[i].expressions[j])

(***************************************************************************)
(* metric_to_expr applied to bounded metrics.                              *)
(***************************************************************************)

Aggregations == {"sum", "count", "count_distinct", "avg", "min", "max", "median"}

MetricSqlPool ==
    {None, Some(<<Op("*")>>), Some(<<Id(<<"amount">>)>>),
     Some(<<Id(<<"amount">>), Op("*"), Num("2")>>),
     Some(<<Kw("SUM"), Op("("), Id(<<"amount">>), Op(")")>>)}

MetricPool ==
    {Metric("m", "simple", agg, sql, None, None, None) :
        agg \in {None, Some("expression")} \cup {Some(a) : a \in Aggregations},
        sql \in MetricSqlPool}
    \cup {MetricDerived("d", <<Id(<<"revenue">>), Op("/"), Id(<<"n">>)>>),
          MetricRatio("r", <<"revenue">>, <<"n">>)}

AliasPool == {"o", "orders", "t"}

InitMetric ==
    /\ models = EmptyMap
    /\ adjacency = EmptyMap
    /\ \E metric \in MetricPool, alias \in AliasPool :
          call = [op |-> "metric_to_expr", metric |-> metric, alias |-> alias,
                  returned |-> FALSE]
    /\ ret = Ok(<<>>)
    /\ NoProcess

\* a panic of the unwrap() of an absent agg is returned as an error
MetricToExpr ==
    /\ call.op = "metric_to_expr"
    /\ ~call.returned
    /\ call' = [call EXCEPT !.returned = TRUE]
    /\ ret' = LET e == metric_to_expr(call.metric, call.alias)
              IN  IF e = PanicE THEN Err("panic", <<>>) ELSE Ok(e)
    /\ UNCHANGED <<models, adjacency>>

NextMetric == MetricToExpr /\ UNCHANGED process

SpecMetric == InitMetric /\ [][NextMetric]_vars

\* the expression of a simple metric: COUNT(*), COUNT(DISTINCT alias.sql),
\* AGG(alias.sql)
SimpleExpression(metric, alias) ==
    LET agg == Unwrap(metric.agg)
        col == Col(Some(alias), SqlText(metric_sql_expr(metric)))
    IN  IF agg = "count" /\ (metric.sql = None \/ metric.sql = Some(<<Op("*")>>))
        THEN CountE(None, TRUE, FALSE)
        ELSE IF agg = "count" THEN CountE(Some(col), FALSE, FALSE)
        ELSE IF agg = "count_distinct" THEN CountE(Some(col), FALSE, TRUE)
        ELSE AggE(agg, col)

\* C7: for a simple metric the rewriter emits COUNT(*) when agg is count and
\* sql is '*' or absent, COUNT(DISTINCT alias.sql) when agg is count_distinct,
\* and AGG(alias.sql) for every other agg and every sql value.
C7_SimpleMetricExpression ==
    (/\ call.op = "metric_to_expr" /\ call.returned
     /\ call.metric.type = "simple"
     /\ call.metric.agg \in {Some(a) : a \in Aggregations})
        => (ret.ok /\ ret.val = SimpleExpression(call.metric, call.alias))

(***************************************************************************)
(* sql/generator.rs : SqlGenerator                                         *)
(*                                                                         *)
(* A reference of a query is given in chunks: ".", "_" and words holding   *)
(* neither, so that parse_reference splits it as it splits the characters. *)
(* The generated text is kept clause by clause.                            *)
(***************************************************************************)

\* Aggregation::as_sql
as_sql(agg) ==
    CASE agg = "sum" -> "SUM"
      [] agg = "count" -> "COUNT"
      [] agg = "count_distinct" -> "COUNT(DISTINCT"
      [] agg = "avg" -> "AVG"
      [] agg = "min" -> "MIN"
      [] agg = "max" -> "MAX"
      [] agg = "median" -> "MEDIAN"

\* Metric::to_sql
to_sql(metric, alias) ==
    LET prefix == IF IsSome(alias) THEN Unwrap(alias) \o "." ELSE "" IN
    CASE metric.type = "simple" ->
            LET agg == UnwrapOr(metric.agg, "sum")
                sql_expr == SqlText(metric_sql_expr(metric))
                full_expr == IF sql_expr = "*" THEN "*" ELSE prefix \o sql_expr
            IN  IF agg = "count_distinct" THEN "COUNT(DISTINCT " \o full_expr \o ")"
                ELSE as_sql(agg) \o "(" \o full_expr \o ")"
      [] metric.type = "derived" -> SqlText(metric_sql_expr(metric))
      [] metric.type = "ratio" ->
            "(" \o JoinDots(UnwrapOr(metric.numerator, <<"1">>)) \o ") / NULLIF("
                \o JoinDots(UnwrapOr(metric.denominator, <<"1">>)) \o ", 0)"

\* Dimension::sql_with_granularity
sql_with_granularity(d, granularity) ==
    LET base_sql == dimension_sql_expr(d)
        g == IF IsSome(granularity) THEN granularity ELSE d.granularity
    IN  IF IsSome(g) THEN "DATE_TRUNC('" \o Unwrap(g) \o "', " \o base_sql \o ")"
        ELSE base_sql

\* SqlGenerator::model_alias
model_alias(model_name) == FirstChar(model_name)

\* parse_dimension_refs
RECURSIVE parse_dimension_refs(_, _, _, _)
parse_dimension_refs(ms, dimensions, i, refs) ==
    IF i > Len(dimensions) THEN Ok(refs)
    ELSE LET parsed == parse_reference(ms, dimensions[i]) IN
         IF ~parsed.ok THEN parsed
         ELSE LET name == Str(parsed.val[2])
                  granularity == IF IsSome(parsed.val[3])
                                 THEN Some(Str(Unwrap(parsed.val[3]))) ELSE None
                  alias == IF IsSome(granularity) THEN name \o "__" \o Unwrap(granularity)
                           ELSE name
              IN  parse_dimension_refs(ms, dimensions, i + 1,
                      Append(refs, [model |-> Str(parsed.val[1]), name |-> name,
                                    granularity |-> granularity, alias |-> alias]))

\* parse_metric_refs
RECURSIVE parse_metric_refs(_, _, _, _)
parse_metric_refs(ms, metrics, i, refs) ==
    IF i > Len(metrics) THEN Ok(refs)
    ELSE LET parsed == parse_reference(ms, metrics[i]) IN
         IF ~parsed.ok THEN parsed
         ELSE parse_metric_refs(ms, metrics, i + 1,
                  Append(refs, [model |-> Str(parsed.val[1]), name |-> Str(parsed.val[2]),
                                alias |-> Str(parsed.val[2])]))

\* find_required_models
find_required_models(dimension_refs, metric_refs) ==
    {r.model : r \in Range(dimension_refs)} \cup {r.model : r \in Range(metric_refs)}

\* build_join_paths: the required models in the set's iteration order; the
\* first path that fails is the error returned
RECURSIVE build_join_paths(_, _, _, _, _, _)
build_join_paths(ms, adj, base_model, order, i, paths) ==
    IF i > Len(order) THEN Ok(paths)
    ELSE LET path == find_join_path(ms, adj, base_model, order[i]) IN
         IF ~path.ok THEN path
         ELSE build_join_paths(ms, adj, base_model, order, i + 1,
                               MapInsert(paths, order[i], path.val))

\* the dimensions of the SELECT clause (generator.rs:111-132)
RECURSIVE SelectDimensions(_, _, _, _)
SelectDimensions(ms, dimension_refs, i, parts) ==
    IF i > Len(dimension_refs) THEN Ok(parts)
    ELSE LET dim_ref == dimension_refs[i]
             model == get_model(ms, dim_ref.model)
         IN  IF ~IsSome(model) THEN Err("ModelNotFound", <<dim_ref.model>>)
             ELSE LET dimension == get_dimension(Unwrap(model), dim_ref.name) IN
                  IF ~IsSome(dimension)
                  THEN Err("DimensionNotFound", <<dim_ref.model, dim_ref.name>>)
                  ELSE LET alias == model_alias(dim_ref.model)
                           sql_expr ==
                               IF IsSome(dim_ref.granularity)
                               THEN sql_with_granularity(Unwrap(dimension), dim_ref.granularity)
                               ELSE alias \o "." \o dimension_sql_expr(Unwrap(dimension))
                       IN  SelectDimensions(ms, dimension_refs, i + 1,
                               Append(parts, [sql |-> sql_expr, alias |-> dim_ref.alias]))

\* the metrics of the SELECT clause (generator.rs:134-165); the graphs of this
\* part hold simple metrics only
RECURSIVE SelectMetrics(_, _, _, _)
SelectMetrics(ms, metric_refs, i, parts) ==
    IF i > Len(metric_refs) THEN Ok(parts)
    ELSE LET metric_ref == metric_refs[i]
             model == get_model(ms, metric_ref.model)
         IN  IF ~IsSome(model) THEN Err("ModelNotFound", <<metric_ref.model>>)
             ELSE LET metric == get_metric(Unwrap(model), metric_ref.name) IN
                  IF ~IsSome(metric)
                  THEN Err("MetricNotFound", <<metric_ref.model, metric_ref.name>>)
                  ELSE LET alias == model_alias(metric_ref.model)
                           sql_expr == CASE Unwrap(metric).type = "simple" ->
                                               to_sql(Unwrap(metric), Some(alias))
                       IN  SelectMetrics(ms, metric_refs, i + 1,
                               Append(parts, [sql |-> sql_expr, alias |-> metric_ref.alias]))

\* the JOIN clauses of one path (generator.rs:183-199); get_model(..).unwrap()
\* panics on a step into a name that is no model
RECURSIVE JoinSteps(_, _, _, _)
JoinSteps(ms, steps, i, joins) ==
    IF i > Len(steps) THEN Ok(joins)
    ELSE LET step == steps[i]
             target_model == get_model(ms, step.to_model)
         IN  IF ~IsSome(target_model) THEN Err("panic", <<step.to_model>>)
             ELSE JoinSteps(ms, steps, i + 1,
                      Append(joins, [model |-> step.to_model,
                                     source |-> JoinDots(table_source(Unwrap(target_model))),
                                     alias |-> model_alias(step.to_model),
                                     from_alias |-> model_alias(step.from_model),
                                     from_key |-> step.from_key,
                                     to_alias |-> model_alias(step.to_model),
                                     to_key |-> step.to_key]))

\* the loop over join_paths in the map's iteration order (generator.rs:178-200)
RECURSIVE JoinClauses(_, _, _, _, _, _)
JoinClauses(ms, join_paths, base_model, order, i, joins) ==
    IF i > Len(order) THEN Ok(joins)
    ELSE IF order[i] = base_model
         THEN JoinClauses(ms, join_paths, base_model, order, i + 1, joins)
         ELSE LET more == JoinSteps(ms, join_paths[order[i]], 1, joins) IN
              IF ~more.ok THEN more
              ELSE JoinClauses(ms, join_paths, base_model, order, i + 1, more.val)

\* SqlGenerator::generate for a query without filters, segments, order_by and
\* limit; set_order and map_order are the iteration orders of required_models
\* and of join_paths
generate(ms, adj, query, set_order, map_order) ==
    LET dimension_refs == parse_dimension_refs(ms, query.dimensions, 1, <<>>) IN
    IF ~dimension_refs.ok THEN dimension_refs ELSE
    LET metric_refs == parse_metric_refs(ms, query.metrics, 1, <<>>) IN
    IF ~metric_refs.ok THEN metric_refs ELSE
    IF metric_refs.val = <<>> /\ dimension_refs.val = <<>> THEN Err("Validation", <<>>) ELSE
    LET base_model == IF metric_refs.val # <<>> THEN metric_refs.val[1].model
                      ELSE dimension_refs.val[1].model
        join_paths == build_join_paths(ms, adj, base_model, set_order, 1, EmptyMap)
    IN
    IF ~join_paths.ok THEN join_paths ELSE
    LET dims == SelectDimensions(ms, dimension_refs.val, 1, <<>>) IN
    IF ~dims.ok THEN dims ELSE
    LET select_parts == SelectMetrics(ms, metric_refs.val, 1, dims.val) IN
    IF ~select_parts.ok THEN select_parts ELSE
    LET joins == JoinClauses(ms, join_paths.val, base_model, map_order, 1, <<>>) IN
    IF ~joins.ok THEN joins ELSE
    Ok([select |-> select_parts.val,
        from |-> [model |-> base_model,
                  source |-> JoinDots(table_source(ms[base_model])),
                  alias |-> model_alias(base_model)],
        joins |-> joins.val,
        group_by |-> IF dimension_refs.val # <<>> /\ metric_refs.val # <<>>
                     THEN [i \in 1..Len(dimension_refs.val) |-> ToString(i)]
                     ELSE <<>>])

(***************************************************************************)
(* The generator applied to bounded queries on graphs of three models.     *)
(***************************************************************************)

MaxDims == 2

GenOrders(relationships) ==
    Model("orders", Some(<<"public", "orders">>), None,
          <<Dimension("status", "categorical", None, None),
            Dimension("created", "time", Some("created_at"), None),
            Dimension("shipped", "time", None, Some("day"))>>,
          <<MetricSimple("revenue", "sum", Some(<<Id(<<"amount">>)>>)),
            MetricSimple("n", "count", Some(<<Op("*")>>))>>,
          relationships)

GenCustomers(relationships) ==
    Model("customers", Some(<<"customers">>), None,
          <<Dimension("country", "categorical", None, None)>>, <<>>, relationships)

GenCategories ==
    Model("categories", Some(<<"categories">>), None,
          <<Dimension("label", "categorical", None, None)>>, <<>>, <<>>)

ToCategories == Relationship("categories", "many_to_one", None, None)
\* a relationship to a name that is never added as a model
ToHub == Relationship("hub", "many_to_one", None, None)

GenGraphs ==
    {GraphOf({GenOrders(o), GenCustomers(c), GenCategories}) :
        o \in {<<>>, <<ToCustomers>>, <<ToCustomers, ToCategories>>, <<ToHub>>},
        c \in {<<>>, <<ToHub>>}}

DimensionPool ==
    {<<"orders", ".", "status">>,
     <<"orders", ".", "created">>,
     <<"orders", ".", "created", "_", "_", "month">>,
     <<"orders", ".", "shipped">>,
     <<"orders", ".", "shipped", "_", "_", "week">>,
     <<"customers", ".", "country">>,
     <<"categories", ".", "label">>,
     <<"orders", ".", "missing">>,
     <<"hub", ".", "x">>,
     <<"orders">>}

MetricRefPool ==
    {<<"orders", ".", "revenue">>, <<"orders", ".", "n">>, <<"customers", ".", "country">>}

Queries ==
    {[dimensions |-> d, metrics |-> m] :
        d \in SeqsUpTo(DimensionPool, MaxDims), m \in SeqsUpTo(MetricRefPool, 1)}

\* the models a query names, when its references parse
QueryModels(ms, query) ==
    LET d == parse_dimension_refs(ms, query.dimensions, 1, <<>>)
        m == parse_metric_refs(ms, query.metrics, 1, <<>>)
    IN  IF d.ok /\ m.ok THEN find_required_models(d.val, m.val) ELSE {}

\* the caller has a graph and a query in hand and has not called yet
InitGenerate ==
    /\ \E g \in GenGraphs :
          /\ models = g
          /\ \E order \in ModelOrders(g) : adjacency = rebuild_adjacency(EmptyMap, g, order, 1)
    /\ \E query \in Queries :
          call = [op |-> "generate", query |-> query, returned |-> FALSE]
    /\ ret = Ok(<<>>)
    /\ NoProcess

Generate ==
    /\ call.op = "generate"
    /\ ~call.returned
    /\ call' = [call EXCEPT !.returned = TRUE]
    /\ \E set_order \in Orderings(QueryModels(models, call.query)),
          map_order \in Orderings(QueryModels(models, call.query)) :
          ret' = generate(models, adjacency, call.query, set_order, map_order)
    /\ UNCHANGED <<models, adjacency>>

NextGenerate == Generate /\ UNCHANGED process

SpecGenerate == InitGenerate /\ [][NextGenerate]_vars

(***************************************************************************)
(* Properties of a generated query.                                        *)
(***************************************************************************)

\* the parts of a reference of DimensionPool, read off its chunks
SuffixOf(ref) == IF Len(ref) > 3 THEN Some(ref[6]) ELSE None

GenReturned == call.op = "generate" /\ call.returned /\ ret.ok

\* C22: a time-dimension reference is rendered as
\* DATE_TRUNC('<granularity>', <alias>.<dimension sql>) whenever a granularity
\* is present as the suffix of the reference or as the default granularity of
\* the dimension, and as <alias>.<dimension sql> when neither is present.
C22_TimeDimensionRendering ==
    GenReturned =>
        \A i \in DOMAIN call.query.dimensions :
            LET ref == call.query.dimensions[i]
                d == Unwrap(get_dimension(models[ref[1]], ref[3]))
                g == IF IsSome(SuffixOf(ref)) THEN SuffixOf(ref) ELSE d.granularity
                column == FirstChar(ref[1]) \o "." \o UnwrapOr(d.sql, d.name)
            IN  d.type = "time" =>
                    ret.val.select[i].sql =
                        IF IsSome(g) THEN "DATE_TRUNC('" \o Unwrap(g) \o "', " \o column \o ")"
                        ELSE column

(***************************************************************************)
(* ffi.rs : the C bindings.  Every binding works on the process-wide graph *)
(* behind the mutex SEMANTIC_GRAPH and on the active model behind the      *)
(* mutex ACTIVE_MODEL.  A call is a sequence of steps of its thread; a     *)
(* step ends where the thread may block on a mutex or where another thread *)
(* could observe the graph if the mutex did not keep it out.  Every step   *)
(* runs to its end: a panic under a guard, which would poison the mutex,   *)
(* is not part of this model.                                              *)
(***************************************************************************)

Threads == {1, 2}

\* the calls one thread makes
MaxCalls == 2

Loads == {"load_yaml", "load_file", "autoload"}
Readers == {"rewrite", "is_model", "list_models"}

\* Mutex::lock returns to thread t once no thread is inside
NotLocked(lk, l, t) == lk
Locked(lk, l, t) == [lk EXCEPT ![l] = Some(t)]

\* the drop of a MutexGuard
StillLocked(lk, l) == lk
Unlocked(lk, l) == [lk EXCEPT ![l] = None]

\* the arguments of a call: the models of a load or of a define, the model
\* name of a use or the model prefix of an add_definition, is_replace, and
\* whether the definition text parses
Arg(batch, name, replace, parses) ==
    [batch |-> batch, name |-> name, replace |-> replace, parses |-> parses]

NoArg == Arg(<<>>, None, FALSE, TRUE)

\* what a binding returns: success or an error message, and for a reader the
\* model names it found in the graph
Success(names) == [ok |-> TRUE, err |-> "", names |-> names]
Failure(message) == [ok |-> FALSE, err |-> message, names |-> {}]

Idle(left, result) ==
    [op |-> "none", arg |-> NoArg, pc |-> "idle", left |-> left, merged |-> 0,
     model_name |-> None, result |-> result]

\* the model without table and sql, which add_model rejects
Untabled == Model("items", None, None, <<>>, <<>>, <<>>)

\* the models a load merges, in the order new_graph.models() or
\* split_definitions yields them
LoadBatches ==
    {<<RefModel("orders"), RefModel("customers")>>,
     <<RefModel("customers"), RefModel("orders")>>,
     <<RefModel("customers")>>,
     <<RefModel("orders"), Untabled, RefModel("customers")>>}

LoadPool == {Arg(batch, None, FALSE, TRUE) : batch \in LoadBatches}

DefinePool ==
    {Arg(<<model>>, None, FALSE, TRUE) :
        model \in {RefModel("orders"), RefModel("customers"), Untabled}}

UsePool == {Arg(<<>>, Some(name), FALSE, TRUE) : name \in {"orders", "customers", "items"}}

\* METRIC / DIMENSION text with or without a model prefix; text that
\* parse_sql_model rejects
DefinitionPool ==
    {Arg(<<>>, None, TRUE, TRUE),
     Arg(<<>>, None, FALSE, TRUE),
     Arg(<<>>, None, TRUE, FALSE),
     Arg(<<>>, Some("orders"), TRUE, TRUE),
     Arg(<<>>, Some("items"), TRUE, TRUE)}

ArgsOf(op) ==
    CASE op \in Loads -> LoadPool
      [] op = "define" -> DefinePool
      [] op = "use" -> UsePool
      [] op = "add_definition" -> DefinitionPool
      [] OTHER -> {NoArg}

FfiBindings == Loads \cup Readers \cup {"define", "use", "add_definition", "clear"}

InitFfi ==
    /\ models = EmptyMap
    /\ adjacency = EmptyMap
    /\ call = [op |-> "new"]
    /\ ret = Ok(<<>>)
    /\ active_model = None
    /\ lock = [SEMANTIC_GRAPH |-> None, ACTIVE_MODEL |-> None]
    /\ thread = [t \in Threads |-> Idle(MaxCalls, Success({}))]

graph_vars == <<models, adjacency, call, ret>>

\* the call returns: its thread is idle again
Return(t, result) ==
    thread' = [thread EXCEPT ![t] = Idle(thread[t].left, result)]

Goto(t, pc) == thread' = [thread EXCEPT ![t].pc = pc]

\* a binding is entered; everything up to its SEMANTIC_GRAPH.lock() works on
\* the arguments alone
Call(t, op, arg) ==
    /\ thread[t].pc = "idle"
    /\ thread[t].left > 0
    /\ thread' = [thread EXCEPT ![t] = [op |-> op, arg |-> arg, pc |-> "lock_graph",
                                        left |-> thread[t].left - 1, merged |-> 0,
                                        model_name |-> None, result |-> Success({})]]
    /\ UNCHANGED <<graph_vars, active_model, lock>>

\* a null pointer, invalid UTF-8, text that does not parse: the binding
\* returns an error before it locks anything
Rejected(t, op) ==
    /\ thread[t].pc = "idle"
    /\ thread[t].left > 0
    /\ thread' = [thread EXCEPT ![t] = Idle(thread[t].left - 1, Failure("Error"))]
    /\ UNCHANGED <<graph_vars, active_model, lock>>

\* SEMANTIC_GRAPH.lock().unwrap(), the first lock of every binding
LockGraph(t) ==
    /\ thread[t].pc = "lock_graph"
    /\ lock.SEMANTIC_GRAPH = None
    /\ lock' = Locked(lock, "SEMANTIC_GRAPH", t)
    /\ Goto(t, CASE thread[t].op \in Loads -> "merge"
                 [] thread[t].op \in Readers -> "read"
                 [] thread[t].op = "define" -> "add_model"
                 [] thread[t].op = "add_definition" -> "resolve"
                 [] thread[t].op = "use" -> "verify"
                 [] thread[t].op = "clear" -> "reset")
    /\ UNCHANGED <<graph_vars, active_model>>

\* ACTIVE_MODEL.lock().unwrap()
LockActive(t) ==
    /\ thread[t].pc = "lock_active"
    /\ lock.ACTIVE_MODEL = None
    /\ lock' = Locked(lock, "ACTIVE_MODEL", t)
    /\ Goto(t, IF thread[t].op = "add_definition" THEN "read_active" ELSE "set_active")
    /\ UNCHANGED <<graph_vars, active_model>>

\* one turn of the merge loop of sidemantic_load_yaml, sidemantic_load_file
\* and sidemantic_autoload, under the graph lock; the end of the loop and an
\* add_model error return and drop the guard
Merge(t) ==
    /\ thread[t].pc = "merge"
    /\ UNCHANGED active_model
    /\ IF thread[t].merged = Len(thread[t].arg.batch)
       THEN /\ lock' = Unlocked(lock, "SEMANTIC_GRAPH")
            /\ Return(t, Success({}))
            /\ UNCHANGED graph_vars
       ELSE /\ AddModel(thread[t].arg.batch[thread[t].merged + 1])
            /\ IF ret'.ok
               THEN /\ thread' = [thread EXCEPT ![t].merged = @ + 1]
                    /\ UNCHANGED lock
               ELSE /\ lock' = Unlocked(lock, "SEMANTIC_GRAPH")
                    /\ Return(t, IF ret'.ok THEN Success({}) ELSE Failure(ret'.err))

\* sidemantic_clear: *graph = SemanticGraph::new()
Clear(t) ==
    /\ thread[t].pc = "reset"
    /\ models' = EmptyMap
    /\ adjacency' = EmptyMap
    /\ call' = [op |-> "new"]
    /\ ret' = Ok(<<>>)
    /\ lock' = Unlocked(lock, "SEMANTIC_GRAPH")
    /\ Return(t, Success({}))
    /\ UNCHANGED active_model

\* sidemantic_rewrite, sidemantic_is_model, sidemantic_list_models: the graph
\* is read under the lock; the names read are what the call returns
Read(t) ==
    /\ thread[t].pc = "read"
    /\ lock' = Unlocked(lock, "SEMANTIC_GRAPH")
    /\ Return(t, Success(DOMAIN models))
    /\ UNCHANGED <<graph_vars, active_model>>

\* sidemantic_define: graph.add_model(model) under the graph lock
DefineAddModel(t) ==
    /\ thread[t].pc = "add_model"
    /\ AddModel(thread[t].arg.batch[1])
    /\ IF ret'.ok
       THEN /\ Goto(t, "lock_active")
            /\ UNCHANGED lock
       ELSE /\ lock' = Unlocked(lock, "SEMANTIC_GRAPH")
            /\ Return(t, IF ret'.ok THEN Success({}) ELSE Failure(ret'.err))
    /\ UNCHANGED active_model

\* sidemantic_define: *ACTIVE_MODEL.lock().unwrap() = Some(model_name); the
\* guard of ACTIVE_MODEL is dropped with the statement, the guard of the graph
\* with the return
DefineSetActive(t) ==
    /\ thread[t].pc = "set_active"
    /\ thread[t].op = "define"
    /\ active_model' = Some(thread[t].arg.batch[1].name)
    /\ lock' = Unlocked(Unlocked(lock, "ACTIVE_MODEL"), "SEMANTIC_GRAPH")
    /\ Return(t, Success({}))
    /\ UNCHANGED graph_vars

\* sidemantic_use: the model is looked up under the graph lock, and the
\* guard is dropped before ACTIVE_MODEL is locked
UseVerify(t) ==
    /\ thread[t].pc = "verify"
    /\ lock' = Unlocked(lock, "SEMANTIC_GRAPH")
    /\ IF get_model(models, Unwrap(thread[t].arg.name)) = None
       THEN Return(t, Failure("not found"))
       ELSE Goto(t, "lock_active")
    /\ UNCHANGED <<graph_vars, active_model>>

\* sidemantic_use: *ACTIVE_MODEL.lock().unwrap() = Some(name)
UseSetActive(t) ==
    /\ thread[t].pc = "set_active"
    /\ thread[t].op = "use"
    /\ active_model' = thread[t].arg.name
    /\ lock' = Unlocked(lock, "ACTIVE_MODEL")
    /\ Return(t, Success({}))
    /\ UNCHANGED graph_vars

\* sidemantic_add_definition: an explicit model prefix must name a model of
\* the graph; without a prefix ACTIVE_MODEL is locked next
AddDefinitionResolve(t) ==
    /\ thread[t].pc = "resolve"
    /\ IF IsSome(thread[t].arg.name)
       THEN IF get_model(models, Unwrap(thread[t].arg.name)) = None
            THEN /\ lock' = Unlocked(lock, "SEMANTIC_GRAPH")
                 /\ Return(t, Failure("not found"))
            ELSE /\ thread' = [thread EXCEPT ![t].model_name = thread[t].arg.name,
                                             ![t].pc = "update"]
                 /\ UNCHANGED lock
       ELSE /\ Goto(t, "lock_active")
            /\ UNCHANGED lock
    /\ UNCHANGED <<graph_vars, active_model>>

\* sidemantic_add_definition: the active model, else the last model that
\* graph.models() yields, else an error
AddDefinitionReadActive(t) ==
    /\ thread[t].pc = "read_active"
    /\ IF IsSome(active_model)
       THEN /\ thread' = [thread EXCEPT ![t].model_name = active_model, ![t].pc = "update"]
            /\ lock' = Unlocked(lock, "ACTIVE_MODEL")
       ELSE IF DOMAIN models = {}
            THEN /\ lock' = Unlocked(Unlocked(lock, "ACTIVE_MODEL"), "SEMANTIC_GRAPH")
                 /\ Return(t, Failure("no model defined yet"))
            ELSE /\ \E last \in DOMAIN models :
                       thread' = [thread EXCEPT ![t].model_name = Some(last),
                                                ![t].pc = "update"]
                 /\ lock' = Unlocked(lock, "ACTIVE_MODEL")
    /\ UNCHANGED <<graph_vars, active_model>>

\* updated_model.dimensions.retain(..) / push(dim)
WithDefinition(model, dim, replace) ==
    [model EXCEPT !.dimensions =
        Append(IF replace THEN SelectSeq(@, LAMBDA d : d.name # dim.name) ELSE @, dim)]

\* sidemantic_add_definition: the model is fetched, the definition parsed
\* and added, and the updated model stored
AddDefinitionUpdate(t) ==
    /\ thread[t].pc = "update"
    /\ lock' = Unlocked(lock, "SEMANTIC_GRAPH")
    /\ LET model == get_model(models, Unwrap(thread[t].model_name)) IN
       IF model = None
       THEN /\ Return(t, Failure("could not find model"))
            /\ UNCHANGED graph_vars
       ELSE IF ~thread[t].arg.parses
       THEN /\ Return(t, Failure("Error parsing definition"))
            /\ UNCHANGED graph_vars
       ELSE /\ AddModel(WithDefinition(Unwrap(model),
                                       Dimension("region", "categorical", None, None),
                                       thread[t].arg.replace))
            /\ Return(t, IF ret'.ok THEN Success({}) ELSE Failure(ret'.err))
    /\ UNCHANGED active_model

\* the steps of thread t inside a call
Step(t) ==
    \/ LockGraph(t)
    \/ LockActive(t)
    \/ Merge(t)
    \/ Clear(t)
    \/ Read(t)
    \/ DefineAddModel(t)
    \/ DefineSetActive(t)
    \/ UseVerify(t)
    \/ UseSetActive(t)
    \/ AddDefinitionResolve(t)
    \/ AddDefinitionReadActive(t)
    \/ AddDefinitionUpdate(t)

NextFfi ==
    \/ \E t \in Threads, op \in FfiBindings : \E arg \in ArgsOf(op) : Call(t, op, arg)
    \/ \E t \in Threads, op \in FfiBindings \ {"clear", "list_models"} : Rejected(t, op)
    \/ \E t \in Threads : Step(t)

SpecFfi == InitFfi /\ [][NextFfi]_vars

\* every thread that can take a step inside a call is scheduled; a mutex
\* promises no turn to a thread that waits for it
SpecFfiFair == SpecFfi /\ \A t \in Threads : WF_vars(Step(t))

(***************************************************************************)
(* Properties of concurrent FFI calls.                                     *)
(***************************************************************************)

\* thread t is at a place of its binding where the code reads or writes the
\* graph, or keeps its guard while it works on ACTIVE_MODEL
InGraph(t) ==
    \/ thread[t].pc \in {"merge", "read", "add_model", "resolve", "read_active",
                         "update", "verify", "reset"}
    \/ thread[t].pc \in {"lock_active", "set_active"}
          /\ thread[t].op \in {"define", "add_definition"}

MutualExclusion ==
    \A r \in Threads, w \in Threads : (r # w) => ~(InGraph(r) /\ InGraph(w))

\* the step in which thread r reads the graph for a rewrite, is_model or
\* list_models call
ReadsGraph(r) == thread[r].pc = "read" /\ thread'[r].pc = "idle"

\* C26: readers and writers of the process-wide graph are mutually
\* exclusive, and whenever a rewrite, is_model or list_models call reads the
\* graph, every load_yaml, load_file or autoload call in flight has merged
\* none of its models yet (a load that has returned has merged all it
\* merges): no reader sees a partially merged graph.
C26_AtomicLoads ==
    /\ []MutualExclusion
    /\ [][\A r \in Threads : ReadsGraph(r) =>
              \A w \in Threads \ {r} :
                  thread[w].op \in Loads => thread[w].merged = 0]_vars

\* a load has merged one of its models and not the next while a reader
\* waits for the graph
C26_Witness ==
    \E r \in Threads, w \in Threads :
        /\ thread[w].op \in Loads
        /\ thread[w].merged = 1
        /\ Len(thread[w].arg.batch) > 1
        /\ thread[r].op \in Readers
        /\ thread[r].pc = "lock_graph"

Holds(t, l) == lock[l] = Some(t)

Waits(t, l) ==
    \/ thread[t].pc = "lock_graph" /\ l = "SEMANTIC_GRAPH"
    \/ thread[t].pc = "lock_active" /\ l = "ACTIVE_MODEL"

LockOrder ==
    \A t \in Threads, held \in DOMAIN lock, wanted \in DOMAIN lock :
        (Holds(t, held) /\ Waits(t, wanted)) =>
            (held = "SEMANTIC_GRAPH" /\ wanted = "ACTIVE_MODEL")

C30_ActiveModelInGraph ==
    (\A t \in Threads : thread[t].pc = "idle") =>
        (active_model = None \/ Unwrap(active_model) \in DOMAIN models)

====
